---- MODULE Spec2Model ----
(***************************************************************************)
(* Excelify (src/Excel.py): the collapsible, multi-level table.            *)
(*                                                                         *)
(* A CollapsibleTable holds one dataset per grouping level.                *)
(* ExcelWriter.add_collapsible_table walks the levels recursively          *)
(* (_recursive_data_looper), writes one sheet row per selected dataset row *)
(* (write_line) at the row cursor table.data_row, and finally writes the   *)
(* total row.                                                              *)
(*                                                                         *)
(* Encoding.  A column name is a number; table.data, a dict ordered by     *)
(* insertion, is a sequence of datasets [name, columns, rows], name being  *)
(* the level's name, which is also the name of its key column.  A cell     *)
(* value is a record [t, v]: t = "s" is a Python str (the v-th name of     *)
(* some list of names), t = "n" the integer v, t = "d" the str that is the *)
(* decimal text of v, t = "c" the column name v, t = "h" the text          *)
(* "`<column v>`" built for the total row.  A format is <<"str", name>> or *)
(* <<"list", names>>; a condition is <<"none">>, <<"str", c>> or           *)
(* <<"list", cs>>.  The recursion of _recursive_data_looper is the         *)
(* explicit call stack `stack`; the filter dict, which all frames share by *)
(* reference, is the one variable `filter` (entries in insertion order).   *)
(***************************************************************************)
EXTENDS Integers, Sequences, FiniteSets, TLC

\* Bounds of the checked instances.
MaxLevels == 3
MaxRows == 4
MaxFormatCalls == 1
MaxTotalCalls == 2
MaxTokens == 4
MaxFunctions == 2
MaxLinkCalls == 2
MaxHideCalls == 3
MaxOperationCalls == 2
MaxFlatRows == 3
MaxSeries == 2
MaxValidationCalls == 2
DeepLevels == 4

\* Defaults of CollapsibleTable.__init__.
start_col_default == 0
header_row_default == 1
data_row_default == 2

VARIABLES
    table,        \* the CollapsibleTable object (its fields)
    pc,           \* "idle" | "loop" | "total" | "done" | "error": position in add_collapsible_table
    table_val,    \* local of add_collapsible_table
    total_row,    \* local of add_collapsible_table
    stack,        \* call stack of _recursive_data_looper, innermost frame last
    filter,       \* the filter dict shared by the frames
    worksheet,    \* the sheet: cells, row properties
    log,          \* history: the data rows written, in write order
    tlog,         \* history: the total-row cells written, in write order
    ncalls,       \* number of registration calls made so far
    ctor,         \* history: the constructor arguments data_row, header_row, total_row
    last_call,    \* history: the last call made on the table or its class (not the
                  \* render): the method, its arguments, whether it raised to the caller,
                  \* and what it returned
    sched,        \* the calls of add_collapsible_table on the one table: the number of
                  \* the call that is running (render), the locals of the other call
                  \* (other), and, as history, whether control has only ever passed
                  \* from a call that had not begun or had ended (serial)
    flat,         \* a Table object (the flat table) and how far add_table has got
    chart         \* a Chart object: its series

vars == <<table, pc, table_val, total_row, stack, filter, worksheet, log, tlog, ncalls, ctor,
          last_call, sched, flat, chart>>

NoStyle == "None"

StrVal(n) == [t |-> "s", v |-> n]
NumVal(n) == [t |-> "n", v |-> n]

\* str(value), as the f-string of the query formats it
Str(value) == IF value.t = "n" THEN [t |-> "d", v |-> value.v] ELSE value

(***************************************************************************)
(* Small sequence helpers.                                                 *)
(***************************************************************************)
Range(s) == {s[i] : i \in 1..Len(s)}

RECURSIVE SeqSum(_)
SeqSum(s) == IF s = <<>> THEN 0 ELSE Head(s) + SeqSum(Tail(s))

RECURSIVE FilterSeq(_, _)
\* the members of the sequence s that are in the set S, in the order of s
FilterSeq(s, S) ==
    IF s = <<>> THEN <<>>
    ELSE IF Head(s) \in S THEN <<Head(s)>> \o FilterSeq(Tail(s), S)
         ELSE FilterSeq(Tail(s), S)

\* list.index(x), counted from 1; 0 when x is not in the list
IndexOf(s, x) == IF x \in Range(s) THEN CHOOSE i \in 1..Len(s) : s[i] = x ELSE 0

(***************************************************************************)
(* The table's data.                                                       *)
(***************************************************************************)
\* list(data_dict.keys())
level_names(t) == [i \in 1..Len(t.data) |-> t.data[i].name]

\* data_dict[level_name]
dataset(t, level_name) == t.data[IndexOf(level_names(t), level_name)]

\* line_info[line_header.index(col)] for the r-th row of a level's dataset
Cell(t, level_name, r, col) ==
    LET d == dataset(t, level_name) IN d.rows[r][IndexOf(d.columns, col)]

\* table.start_col + table.header.index(col)
sheet_col(t, col) == t.start_col + (IndexOf(t.header, col) - 1)

(***************************************************************************)
(* Formats and conditions.                                                 *)
(***************************************************************************)
FormatNames ==
    {"Bold", "BoldWrapped", "MergeCenter", "MergeLeft", "MergeRight", "BoldNum", "Num",
     "TwoDecimalNum", "Link", "TwoDecimalNumBold", "PercentBold", "Percent",
     "OrangePercent", "RedPercent", "Blank", "RedBackground", "GreenBackground",
     "YellowBackground", "DateFormat", "AccountingNoSign", "AccountingNoSignBold",
     "AccountingNoSignGreen", "AccountingNoSignRed", "Accounting", "AccountingBold",
     "AccountingGreen", "AccountingRed", "Datetime", "DatetimeBold", "Date", "DateBold",
     "Time", "TimeBold"}

\* ExcelWriter._get_excel_format: a chain of `if format == "<name>": return ...`;
\* a name outside the catalog, or a list, falls off the end and gives None.
get_excel_format(format) ==
    IF format[1] = "str" /\ format[2] \in FormatNames THEN format[2] ELSE NoStyle

\* Helper._format_string: every placeholder (a column name between backticks, the
\* argument [t |-> "ref", v |-> column] here) is replaced by the text
\* row['<column>'] (the argument [t |-> "row", v |-> column]); the rest is kept.
format_string(condition) ==
    IF condition.arg.t = "ref"
    THEN [condition EXCEPT !.arg = [t |-> "row", v |-> condition.arg.v]]
    ELSE condition

\* eval(table.helper._format_string(condition)) inside add_collapsible_table, with
\* _column_ bound to the cell's value.  A condition is [op, arg], standing for the
\* text "_column_ <op> <arg>".  "T" / "F": the truth value; "E": the evaluation
\* raises (str compared with int; or the name `row`, which nothing binds there).
eval_condition(condition, column) ==
    LET expr == format_string(condition) IN
    IF expr.arg.t = "row" THEN "E"
    ELSE CASE expr.op = "eq" -> IF column = expr.arg THEN "T" ELSE "F"
           [] expr.op = "ne" -> IF column # expr.arg THEN "T" ELSE "F"
           [] expr.op = "gt" ->
                 IF column.t = "n" /\ expr.arg.t = "n"
                 THEN (IF column.v > expr.arg.v THEN "T" ELSE "F")
                 ELSE "E"

RECURSIVE condition_loop(_, _, _, _, _)
\* `for index in range(len(conditions)): if eval(...): worksheet.write(..., format[index])`
\* index is 1-based here.  The result is the sequence of formats of the writes made,
\* in order, and whether an evaluation raised.
condition_loop(conditions, format, column, index, writes) ==
    IF index > Len(conditions) THEN [writes |-> writes, err |-> FALSE]
    ELSE LET e == eval_condition(conditions[index], column) IN
         IF e = "E" THEN [writes |-> writes, err |-> TRUE]
         ELSE IF e = "T"
              THEN condition_loop(conditions, format, column, index + 1,
                                  Append(writes, get_excel_format(<<"str", format[2][index]>>)))
              ELSE condition_loop(conditions, format, column, index + 1, writes)

\* The "Write value" block of write_line, and the same block of the total row:
\* the formats of the worksheet.write calls made for one cell, in order.
value_writes(formats, conditions, col, column) ==
    IF col \notin DOMAIN formats
    THEN [writes |-> <<NoStyle>>, err |-> FALSE]
    ELSE LET format == formats[col]
             condition == conditions[col]
         IN  CASE condition[1] = "none" ->
                    [writes |-> <<get_excel_format(format)>>, err |-> FALSE]
               [] condition[1] = "str" ->
                    LET e == eval_condition(condition[2], column) IN
                    IF e = "E" THEN [writes |-> <<>>, err |-> TRUE]
                    ELSE IF e = "T"
                         THEN [writes |-> <<get_excel_format(format)>>, err |-> FALSE]
                         ELSE [writes |-> <<NoStyle>>, err |-> FALSE]
               [] condition[1] = "list" ->
                    LET r == condition_loop(condition[2], format, column, 1, <<>>) IN
                    IF r.err THEN r
                    ELSE IF r.writes = <<>>
                         THEN [writes |-> <<NoStyle>>, err |-> FALSE]
                         ELSE r

\* (a flag that follows data_properties on every level, the outermost included)
row_hidden_as_asked(t, level, level_name) ==
    IF t.data_properties # <<>>
       /\ level_name \in DOMAIN t.data_properties[1]
       /\ t.data_properties[1][level_name] # <<>>
    THEN t.data_properties[1][level_name][1]
    ELSE level # 0

\* The hidden flag write_line passes to worksheet.set_row.
row_hidden(t, level, level_name) ==
    IF level # 0
    THEN IF t.data_properties # <<>>
         THEN LET dp == t.data_properties[1] IN
              IF level_name \in DOMAIN dp
              THEN IF dp[level_name] # <<>> THEN dp[level_name][1] ELSE TRUE
              ELSE TRUE
         ELSE TRUE
    ELSE FALSE

\* worksheet.write(row, col, value, format): the last write to a cell is what it holds
ws_write(ws, row, col, value, format) ==
    [ws EXCEPT !.cells = (<<row, col>> :> [value |-> value, format |-> format]) @@ @]

\* worksheet.set_row(row, None, None, {'level': level, 'hidden': hidden})
ws_set_row(ws, row, level, hidden) ==
    [ws EXCEPT !.rows = (row :> [level |-> level, hidden |-> hidden]) @@ @]

RECURSIVE ws_write_all(_, _, _, _, _)
ws_write_all(ws, row, col, value, writes) ==
    IF writes = <<>> THEN ws
    ELSE ws_write_all(ws_write(ws, row, col, value, Head(writes)), row, col, value, Tail(writes))

\* worksheet.write_url(row, col, url, string=string): the cell becomes a link that
\* shows string; no cell format is passed
ws_write_url(ws, row, col, url, string) ==
    [ws EXCEPT !.cells = (<<row, col>> :> [value |-> string, format |-> NoStyle]) @@ @,
               !.urls = (<<row, col>> :> [url |-> url, string |-> string]) @@ @]

\* table.links[level_name][col] read on the defaultdict of defaultdicts table.links:
\* a key that is missing is created with an empty dict
links_touched(links, level_name, col) ==
    LET inner == IF level_name \in DOMAIN links THEN links[level_name] ELSE <<>>
        mapping == IF col \in DOMAIN inner THEN inner[col] ELSE <<>>
    IN  (level_name :> ((col :> mapping) @@ inner)) @@ links

\* `if col in table.links.keys()`: the keys of table.links are names of levels
link_wanted(links, level_name, col) == col \in DOMAIN links

\* The "Write links" block of write_line for one cell: [ws, links]
write_link(ws, links, level_name, row, col_index, col, column) ==
    IF link_wanted(links, level_name, col)
    THEN LET links1 == links_touched(links, level_name, col)
             mapping == links1[level_name][col]
         IN  [ws |-> IF column \in DOMAIN mapping
                     THEN ws_write_url(ws, row, col_index, mapping[column], Str(column))
                     ELSE ws,
              links |-> links1]
    ELSE [ws |-> ws, links |-> links]

\* worksheet.data_validation(row, col, row, col, options): the cell gets the
\* dropdown whose 'value' option is value
ws_data_validation(ws, row, col, value) ==
    [ws EXCEPT !.validations = @ \cup {[row |-> row, col |-> col, value |-> value]}]

\* table.data_validation[level_name] read on the defaultdict table.data_validation:
\* a level that is missing is created with an empty dict
validation_touched(dv, level_name) ==
    IF level_name \in DOMAIN dv THEN dv ELSE (level_name :> <<>>) @@ dv

\* an empty defaultdict, what a read of a missing key of makehash() gives: it is
\* not None, not a str and not a list
empty_hash == <<"hash">>

\* table.data_validation_condition[level_name][col] read on the defaultdict of
\* defaultdicts: an entry that is missing is created and holds an empty defaultdict
condition_touched(dvc, level_name, col) ==
    LET inner == IF level_name \in DOMAIN dvc THEN dvc[level_name] ELSE <<>> IN
    (level_name :> (IF col \in DOMAIN inner THEN inner ELSE (col :> empty_hash) @@ inner))
        @@ dvc

RECURSIVE validation_loop(_, _, _, _)
\* `for index in range(len(condition)): if eval(...): worksheet.data_validation(...);
\*  written = True`: whether a condition was true, and whether an evaluation raised
validation_loop(conditions, column, index, written) ==
    IF index > Len(conditions) THEN [written |-> written, err |-> FALSE]
    ELSE LET e == eval_condition(conditions[index], column) IN
         IF e = "E" THEN [written |-> written, err |-> TRUE]
         ELSE validation_loop(conditions, column, index + 1, written \/ e = "T")

\* `elif col in table.data_validation.keys()`: the keys of table.data_validation
\* are names of levels
validation_elif(dv, col) == col \in DOMAIN dv

\* The "Write data validation" block of write_line for one cell: [ws, dv, dvc, err],
\* dv and dvc being table.data_validation and table.data_validation_condition
write_validation(ws, dv, dvc, level_name, row, col_index, col, column) ==
    LET dv1 == validation_touched(dv, level_name) IN
    IF col \in DOMAIN dv1[level_name] /\ dvc[level_name][col] = <<"none">>
    THEN [ws |-> ws_data_validation(ws, row, col_index, dv1[level_name][col]),
          dv |-> dv1, dvc |-> dvc, err |-> FALSE]
    ELSE IF ~validation_elif(dv1, col)
    THEN [ws |-> ws, dv |-> dv1, dvc |-> dvc, err |-> FALSE]
    ELSE LET dvc1 == condition_touched(dvc, level_name, col)
             condition == dvc1[level_name][col]
         IN  CASE condition[1] = "str" ->
                    LET e == eval_condition(condition[2], column) IN
                    [ws |-> IF e = "T"
                            THEN ws_data_validation(ws, row, col_index, dv1[level_name][col])
                            ELSE ws,
                     dv |-> dv1, dvc |-> dvc1, err |-> e = "E"]
               [] condition[1] = "list" ->
                    LET v == validation_loop(condition[2], column, 1, FALSE) IN
                    [ws |-> IF v.err THEN ws
                            ELSE IF v.written
                            THEN ws_data_validation(ws, row, col_index, dv1[level_name][col])
                            ELSE ws_write(ws, row, col_index, column, NoStyle),
                     dv |-> dv1, dvc |-> dvc1, err |-> v.err]
               [] OTHER -> [ws |-> ws, dv |-> dv1, dvc |-> dvc1, err |-> FALSE]

\* what write_line starts a line with: the sheet and the defaultdicts of the table
line_start(t, ws) ==
    [ws |-> ws, links |-> t.links, dv |-> t.data_validation,
     dvc |-> t.data_validation_condition, writes |-> <<>>, err |-> FALSE]

\* the defaultdicts of the table as the reads of a line have left them
line_touched(t, r) ==
    [t EXCEPT !.links = r.links, !.data_validation = r.dv,
              !.data_validation_condition = r.dvc]

RECURSIVE write_line_cols(_, _, _, _, _, _)
\* The body of `for col in line_header` in write_line, from column number k on.
\* r is [ws, links, dv, dvc, writes, err]: the sheet, table.links,
\* table.data_validation, table.data_validation_condition, the formats written per
\* column, and whether an evaluation raised (the rest is then not processed).
write_line_cols(t, r, line, level, level_name, k) ==
    IF k > Len(dataset(t, level_name).columns) \/ r.err THEN r
    ELSE LET col == dataset(t, level_name).columns[k]
             column == Cell(t, level_name, line, col)
             w == value_writes(t.formats[level_name], t.conditions[level_name], col, column)
             ws1 == ws_write_all(r.ws, t.data_row, sheet_col(t, col), column, w.writes)
             l == IF w.err THEN [ws |-> ws1, links |-> r.links]
                  ELSE write_link(ws1, r.links, level_name, t.data_row, sheet_col(t, col),
                                  col, column)
             v == IF w.err THEN [ws |-> ws1, dv |-> r.dv, dvc |-> r.dvc, err |-> TRUE]
                  ELSE write_validation(l.ws, r.dv, r.dvc, level_name, t.data_row,
                                        sheet_col(t, col), col, column)
             ws2 == IF v.err THEN v.ws
                    ELSE ws_set_row(v.ws, t.data_row, level, row_hidden(t, level, level_name))
         IN  write_line_cols(t,
                             [ws |-> ws2, links |-> l.links, dv |-> v.dv, dvc |-> v.dvc,
                              writes |-> Append(r.writes, w.writes), err |-> v.err],
                             line, level, level_name, k + 1)

(***************************************************************************)
(* The total row.                                                          *)
(***************************************************************************)
RECURSIVE total_condition_loop(_, _, _, _)
\* `for index in range(len(table.total_conditions[col])): if eval(...):
\*  _write_total_formula(formatting=True)`: the calls made, and whether an
\* evaluation raised.
total_condition_loop(conditions, column, index, calls) ==
    IF index > Len(conditions) THEN [calls |-> calls, err |-> FALSE]
    ELSE LET e == eval_condition(conditions[index], column) IN
         IF e = "E" THEN [calls |-> calls, err |-> TRUE]
         ELSE IF e = "T"
              THEN total_condition_loop(conditions, column, index + 1, Append(calls, TRUE))
              ELSE total_condition_loop(conditions, column, index + 1, calls)

\* (every column written with formatting=False)
total_calls_unformatted(t, col, column) == [calls |-> <<FALSE>>, err |-> FALSE]

\* The branches of "Write Total Row" for one header column: the values of
\* `formatting` of the calls of _write_total_formula, in order.
total_calls(t, col, column) ==
    IF col \notin DOMAIN t.total_formats
    THEN [calls |-> <<FALSE>>, err |-> FALSE]
    ELSE LET condition == t.total_conditions[col] IN
         CASE condition[1] = "none" -> [calls |-> <<TRUE>>, err |-> FALSE]
           [] condition[1] = "str" ->
                LET e == eval_condition(condition[2], column) IN
                IF e = "E" THEN [calls |-> <<>>, err |-> TRUE]
                ELSE [calls |-> <<e = "T">>, err |-> FALSE]
           [] condition[1] = "list" ->
                LET r == total_condition_loop(condition[2], column, 1, <<>>) IN
                IF r.err THEN r
                ELSE IF r.calls = <<>> THEN [calls |-> <<FALSE>>, err |-> FALSE]
                     ELSE r

\* table.total_row_values[col].iloc[0] can be read: add_total has stored a frame,
\* the frame has the column, and the frame has a row.
total_value_readable(t, col) ==
    /\ t.total_row_values # <<>>
    /\ col \in Range(t.total_row_values[1].columns)
    /\ t.total_row_values[1].rows # <<>>

total_value(t, col) ==
    LET frame == t.total_row_values[1] IN frame.rows[1][IndexOf(frame.columns, col)]

\* (a write that puts an empty cell where the value cannot be read)
write_total_formula_blank(t, r, row, col, formatting) ==
    LET value == IF total_value_readable(t, col) THEN total_value(t, col) ELSE StrVal(0) IN
    [r EXCEPT !.ws = ws_write(r.ws, row, sheet_col(t, col), value, NoStyle),
              !.tlog = Append(r.tlog, [row |-> row, col |-> col,
                                       value |-> value, format |-> NoStyle])]

\* _write_total_formula(formatting): one worksheet.write of the total value inside
\* `try: ... except: pass`.  r is [ws, tlog, err].
write_total_formula(t, r, row, col, formatting) ==
    IF total_value_readable(t, col)
    THEN LET format == IF formatting THEN get_excel_format(t.total_formats[col]) ELSE NoStyle
             value == total_value(t, col)
         IN  [r EXCEPT !.ws = ws_write(r.ws, row, sheet_col(t, col), value, format),
                       !.tlog = Append(r.tlog, [row |-> row, col |-> col,
                                                value |-> value, format |-> format])]
    ELSE r

RECURSIVE write_total_calls(_, _, _, _, _)
write_total_calls(t, r, row, col, calls) ==
    IF calls = <<>> THEN r
    ELSE write_total_calls(t, write_total_formula(t, r, row, col, Head(calls)),
                           row, col, Tail(calls))

RECURSIVE write_total_cols(_, _, _, _)
\* `for col in table.header` of "Write Total Row", from header position k on
write_total_cols(t, r, row, k) ==
    IF k > Len(t.header) \/ r.err THEN r
    ELSE LET col == t.header[k]
             column == [t |-> "h", v |-> col]
             c == total_calls(t, col, column)
             r1 == write_total_calls(t, r, row, col, c.calls)
         IN  write_total_cols(t, [r1 EXCEPT !.err = c.err], row, k + 1)

(***************************************************************************)
(* The filter dict of _recursive_data_looper.                              *)
(***************************************************************************)
dict_keys(flt) == [i \in 1..Len(flt) |-> flt[i].key]

\* filter[key] = value
dict_set(flt, key, value) ==
    IF key \in Range(dict_keys(flt))
    THEN [i \in 1..Len(flt) |-> IF flt[i].key = key THEN [key |-> key, value |-> value]
                                ELSE flt[i]]
    ELSE Append(flt, [key |-> key, value |-> value])

\* filter.pop(key), the key being present
dict_pop(flt, key) == FilterSeq(flt, {e \in Range(flt) : e.key # key})

\* (a filter that is handed down as it is)
pop_filter_kept(flt, position, names) == [filter |-> flt, err |-> FALSE]

RECURSIVE pop_filter(_, _, _)
\* `while len(filter.keys()) != position:
\*      filter.pop(list(data_dict.keys())[len(filter.keys()) - 1])`
\* names[-1] is the last name; popping a key that is not there raises KeyError.
pop_filter(flt, position, names) ==
    IF Len(flt) = position THEN [filter |-> flt, err |-> FALSE]
    ELSE IF Len(flt) > Len(names) THEN [filter |-> flt, err |-> TRUE]
    ELSE LET key == IF Len(flt) >= 1 THEN names[Len(flt)] ELSE names[Len(names)] IN
         IF key \notin Range(dict_keys(flt)) THEN [filter |-> flt, err |-> TRUE]
         ELSE pop_filter(dict_pop(flt, key), position, names)

\* one term "`{key}` == '{value}'" of the query, for one cell of the column
query_term(cell, value) == cell = Str(value)

\* data_dict[level_name].copy().query(' and '.join(query_params)): the numbers of
\* the rows kept, in dataset order; a column the dataset does not have raises.
query(t, level_name, flt) ==
    LET d == dataset(t, level_name) IN
    IF \E e \in Range(flt) : e.key \notin Range(d.columns)
    THEN [rows |-> <<>>, err |-> TRUE]
    ELSE [rows |-> FilterSeq([r \in 1..Len(d.rows) |-> r],
                             {r \in 1..Len(d.rows) :
                                 \A e \in Range(flt) :
                                     query_term(Cell(t, level_name, r, e.key), e.value)}),
          err |-> FALSE]

(***************************************************************************)
(* ExcelWriter.add_collapsible_table, step by step.                        *)
(***************************************************************************)
\* (no case folding)
lower_skipped(str) == str

\* str.lower() on the settings used here
lower(str) ==
    CASE str = "Top" -> "top"
      [] str = "Bottom" -> "bottom"
      [] OTHER -> str

top_frame == stack[Len(stack)]

set_top(frame) == [stack EXCEPT ![Len(stack)] = frame]

\* A frame of _recursive_data_looper: its position, the numbers of the dataset rows
\* it selected (data), how many of them the for loop has taken (index), where it is
\* (pc), and, as history, the rows the call made for the current line selected (sub).
new_frame(position) ==
    [position |-> position, data |-> <<>>, index |-> 0, pc |-> "enter", sub |-> <<>>]

\* the stack after the innermost call has returned; selected is what it had selected
return_to_caller(selected) ==
    IF Len(stack) = 1 THEN <<>>
    ELSE [SubSeq(stack, 1, Len(stack) - 1) EXCEPT ![Len(stack) - 1].sub = selected]

\* `table.data_row += 1`, the last statement of write_line
advance_cursor_skipped(t) == t

\* (a cursor that moves two rows at a time)
advance_cursor_twice(t) == [t EXCEPT !.data_row = @ + 2]

advance_cursor(t) == [t EXCEPT !.data_row = @ + 1]

\* the header cells written under `if use_header is not None`
RECURSIVE write_header(_, _, _)
write_header(t, ws, k) ==
    IF k > Len(t.header) THEN ws
    ELSE write_header(t,
                      ws_write(ws, t.header_row, t.start_col + (k - 1),
                               [t |-> "c", v |-> t.header[k]], "BoldWrapped"),
                      k + 1)

\* (a branch that moves the data rows but leaves the header where it was)
shift_for_top_header_kept(t) ==
    [t EXCEPT !.total_row = <<"int", t.header_row>>,
              !.data_row = t.data_row + 1]

\* the table after the `if table_val == 'top'` branch
shift_for_top(t) ==
    [t EXCEPT !.total_row = <<"int", t.header_row>>,
              !.header_row = t.header_row + 1,
              !.data_row = t.data_row + 1]

\* the local total_row of the `elif table_val == 'bottom'` branch
bottom_total_row(t) == Len(t.data) + t.data_row

\* add_collapsible_table up to the first call of _recursive_data_looper
add_collapsible_table ==
    /\ pc = "idle"
    /\ UNCHANGED <<filter, log, tlog, ncalls, ctor, last_call,
                   sched, flat, chart>>
    /\ IF table.total_row[1] # "str"
       THEN \* table.total_row.lower() on an int
            /\ pc' = "error"
            /\ UNCHANGED <<table, table_val, total_row, stack, worksheet>>
       ELSE LET val == lower(table.total_row[2]) IN
            /\ table_val' = val
            /\ CASE val = "top" ->
                      /\ total_row' = table.header_row
                      /\ table' = shift_for_top(table)
                      /\ worksheet' = write_header(table', worksheet, 1)
                      /\ stack' = <<new_frame(0)>>
                      /\ pc' = "loop"
                 [] val = "bottom" ->
                      /\ total_row' = bottom_total_row(table)
                      /\ table' = table
                      /\ worksheet' = write_header(table, worksheet, 1)
                      /\ stack' = <<new_frame(0)>>
                      /\ pc' = "loop"
                 [] OTHER ->
                      /\ pc' = "error"
                      /\ UNCHANGED <<table, total_row, stack, worksheet>>

\* _recursive_data_looper called one level below the last: it returns at once
looper_base_case ==
    /\ pc = "loop"
    /\ top_frame.pc = "enter"
    /\ Len(table.data) = top_frame.position
    /\ stack' = return_to_caller(<<>>)
    /\ UNCHANGED <<table, pc, table_val, total_row, filter, worksheet, log, tlog, ncalls, ctor, last_call,
                   sched, flat, chart>>

\* _recursive_data_looper: truncate the filter and select the rows of this level
looper_select ==
    /\ pc = "loop"
    /\ top_frame.pc = "enter"
    /\ Len(table.data) # top_frame.position
    /\ UNCHANGED <<table, table_val, total_row, worksheet, log, tlog, ncalls, ctor, last_call,
                   sched, flat, chart>>
    /\ LET position == top_frame.position
           names == level_names(table)
           p == pop_filter(filter, position, names)
           q == IF Len(p.filter) > 0
                THEN query(table, names[position + 1], p.filter)
                ELSE [rows |-> [r \in 1..Len(table.data[position + 1].rows) |-> r],
                      err |-> FALSE]
       IN  IF p.err \/ q.err
           THEN /\ pc' = "error"
                /\ UNCHANGED <<stack, filter>>
           ELSE /\ filter' = p.filter
                /\ stack' = set_top([top_frame EXCEPT !.data = q.rows, !.pc = "for"])
                /\ pc' = pc

\* `for line in data.itertuples(index=False)`: the next line; the filter entry of
\* this level is set and _recursive_data_looper is called for the next level
looper_call ==
    /\ pc = "loop"
    /\ top_frame.pc = "for"
    /\ top_frame.index < Len(top_frame.data)
    /\ UNCHANGED <<table, table_val, total_row, worksheet, log, tlog, ncalls, ctor, last_call,
                   sched, flat, chart>>
    /\ LET position == top_frame.position
           names == level_names(table)
           line == top_frame.data[top_frame.index + 1]
           flt == IF position = 0 THEN <<>> ELSE filter
           deepest == Len(names) = position + 1
           missing == ~deepest /\ names[position + 1] \notin Range(table.data[position + 1].columns)
       IN  IF missing
           THEN /\ pc' = "error"
                /\ UNCHANGED <<stack, filter>>
           ELSE /\ filter' = IF deepest THEN flt
                             ELSE dict_set(flt, names[position + 1],
                                           Cell(table, names[position + 1], line, names[position + 1]))
                /\ stack' = Append(set_top([top_frame EXCEPT !.index = @ + 1, !.pc = "write"]),
                                   new_frame(position + 1))
                /\ pc' = pc

\* the dataset rows the frames of the stack are at: the ancestors, then the line itself
current_path == [i \in 1..Len(stack) |-> stack[i].data[stack[i].index]]

\* The log entry of a line written: the sheet row, the level, the dataset row
\* (line), the dataset rows of the ancestors and of the line (path), the rows the
\* call below had selected (sub), the formats of the writes made per column, and
\* the number of the call of add_collapsible_table that wrote it (by).
line_written(level, level_name, line, writes) ==
    [row |-> table.data_row, level |-> level, level_name |-> level_name, line |-> line,
     path |-> current_path, sub |-> top_frame.sub, writes |-> writes, by |-> sched.render]

\* write_line, called when the recursive call for the line has returned.
write_line ==
    /\ pc = "loop"
    /\ top_frame.pc = "write"
    /\ UNCHANGED <<table_val, total_row, filter, tlog, ncalls, ctor, last_call,
                   sched, flat, chart>>
    /\ LET level == top_frame.position
           level_name == level_names(table)[level + 1]
           line == top_frame.data[top_frame.index]
           r == write_line_cols(table, line_start(table, worksheet),
                                line, level, level_name, 1)
       IN  /\ worksheet' = r.ws
           /\ IF r.err
              THEN /\ pc' = "error"
                   /\ UNCHANGED <<table, stack, log>>
              ELSE /\ table' = advance_cursor(line_touched(table, r))
                   /\ stack' = set_top([top_frame EXCEPT !.pc = "for"])
                   /\ log' = Append(log, line_written(level, level_name, line, r.writes))
                   /\ pc' = pc

\* (a return taken while lines are still left in the for loop)
looper_return_unfinished ==
    /\ pc = "loop"
    /\ top_frame.pc = "for"
    /\ stack' = return_to_caller(top_frame.data)
    /\ pc' = IF Len(stack) = 1 THEN "total" ELSE pc
    /\ UNCHANGED <<table, table_val, total_row, filter, worksheet, log, tlog, ncalls, ctor, last_call,
                   sched, flat, chart>>

\* the for loop of a frame is exhausted: _recursive_data_looper returns
looper_return ==
    /\ pc = "loop"
    /\ top_frame.pc = "for"
    /\ top_frame.index >= Len(top_frame.data)
    /\ stack' = return_to_caller(top_frame.data)
    /\ pc' = IF Len(stack) = 1 THEN "total" ELSE pc
    /\ UNCHANGED <<table, table_val, total_row, filter, worksheet, log, tlog, ncalls, ctor, last_call,
                   sched, flat, chart>>

(***************************************************************************)
(* Two calls of add_collapsible_table on the same table and sheet.  The    *)
(* locals of the call that is not running are kept in sched.other; control *)
(* passes between the calls at the steps of the model, and inside          *)
(* write_line between the writes of the row and `table.data_row += 1`.     *)
(***************************************************************************)
\* the locals of a call of add_collapsible_table that has not begun
idle_call(n) ==
    [render |-> n, pc |-> "idle", table_val |-> "", total_row |-> 0,
     stack |-> <<>>, filter |-> <<>>]

one_call == [render |-> 1, other |-> idle_call(2), serial |-> TRUE]

\* write_line up to its last statement: the cells and the row property are written
\* at the cursor, which is not advanced yet
write_line_cells ==
    /\ pc = "loop"
    /\ top_frame.pc = "write"
    /\ UNCHANGED <<table_val, total_row, filter, tlog, ncalls, ctor, last_call,
                   sched, flat, chart>>
    /\ LET level == top_frame.position
           level_name == level_names(table)[level + 1]
           line == top_frame.data[top_frame.index]
           r == write_line_cols(table, line_start(table, worksheet),
                                line, level, level_name, 1)
       IN  /\ worksheet' = r.ws
           /\ IF r.err
              THEN /\ pc' = "error"
                   /\ UNCHANGED <<table, stack, log>>
              ELSE /\ table' = line_touched(table, r)
                   /\ stack' = set_top([top_frame EXCEPT !.pc = "advance"])
                   /\ log' = Append(log, line_written(level, level_name, line, r.writes))
                   /\ pc' = pc

\* (a last statement of write_line that leaves the cursor where it is)
write_line_advance_lost ==
    /\ pc = "loop"
    /\ top_frame.pc = "advance"
    /\ stack' = set_top([top_frame EXCEPT !.pc = "for"])
    /\ UNCHANGED <<table, pc, table_val, total_row, filter, worksheet, log, tlog, ncalls,
                   ctor, last_call, sched, flat, chart>>

\* `table.data_row += 1`, the last statement of write_line
write_line_advance ==
    /\ pc = "loop"
    /\ top_frame.pc = "advance"
    /\ table' = advance_cursor(table)
    /\ stack' = set_top([top_frame EXCEPT !.pc = "for"])
    /\ UNCHANGED <<pc, table_val, total_row, filter, worksheet, log, tlog, ncalls, ctor,
                   last_call, sched, flat, chart>>

\* control passes to the other call, which has not ended
switch ==
    /\ sched.other.pc \notin {"done", "error"}
    /\ pc' = sched.other.pc
    /\ table_val' = sched.other.table_val
    /\ total_row' = sched.other.total_row
    /\ stack' = sched.other.stack
    /\ filter' = sched.other.filter
    /\ sched' = [render |-> sched.other.render,
                 other |-> [render |-> sched.render, pc |-> pc, table_val |-> table_val,
                            total_row |-> total_row, stack |-> stack, filter |-> filter],
                 serial |-> sched.serial /\ pc \in {"idle", "done", "error"}]
    /\ UNCHANGED <<table, worksheet, log, tlog, ncalls, ctor, last_call, flat, chart>>

RECURSIVE set_hidden_columns(_, _, _)
\* `for column in table.hidden_columns: col_val = table.header.index(column);
\*  worksheet.set_column(col_val, col_val, None, None, {'hidden': True})`, from the
\* k-th member on; r is [ws, err], err when a column is not in the header
set_hidden_columns(t, r, k) ==
    IF t.hidden_columns = <<>> \/ r.err THEN r
    ELSE IF k > Len(t.hidden_columns[1]) THEN r
    ELSE LET column == t.hidden_columns[1][k] IN
         IF column \notin Range(t.header) THEN [r EXCEPT !.err = TRUE]
         ELSE set_hidden_columns(t,
                  [r EXCEPT !.ws.hidden = @ \cup {IndexOf(t.header, column) - 1}], k + 1)

\* "Write Total Row", after the traversal, and then the hidden columns
write_total_row ==
    /\ pc = "total"
    /\ LET r == write_total_cols(table, [ws |-> worksheet, tlog |-> tlog, err |-> FALSE],
                                 total_row, 1)
           h == IF r.err THEN [ws |-> r.ws, err |-> TRUE]
                ELSE set_hidden_columns(table, [ws |-> r.ws, err |-> FALSE], 1)
       IN  /\ worksheet' = h.ws
           /\ tlog' = r.tlog
           /\ pc' = IF h.err THEN "error" ELSE "done"
    /\ UNCHANGED <<table, table_val, total_row, stack, filter, log, ncalls, ctor, last_call,
                   sched, flat, chart>>

(***************************************************************************)
(* CollapsibleTable: construction and registration.                        *)
(***************************************************************************)
\* CollapsibleTable.__init__ with the default start_col, title_row, header_row
\* and data_row; formats and conditions hold one (empty) dict per level
new_table(header, data, data_properties, setting) ==
    [data |-> data,
     header |-> header,
     data_properties |-> data_properties,
     start_col |-> start_col_default,
     title_row |-> header_row_default,
     header_row |-> header_row_default,
     data_row |-> data_row_default,
     total_row |-> <<"str", setting>>,
     formats |-> [n \in {data[i].name : i \in 1..Len(data)} |-> <<>>],
     conditions |-> [n \in {data[i].name : i \in 1..Len(data)} |-> <<>>],
     total_formats |-> <<>>,
     total_conditions |-> <<>>,
     total_row_values |-> <<>>,
     links |-> <<>>,
     data_validation |-> <<>>,
     data_validation_condition |-> <<>>,
     hidden_columns |-> <<>>]

\* the record kept of a call: method, arguments, whether it raised, what it returned
called(op, args, raised, out) == [op |-> op, args |-> args, raised |-> raised, out |-> out]

\* the test `format and condition must be parallel` of the add_*_formats methods
not_parallel(format, condition) ==
    \/ format[1] = "list" /\ condition[1] = "list" /\ Len(format[2]) # Len(condition[2])
    \/ format[1] = "list" /\ condition[1] = "str"
    \/ format[1] = "str" /\ condition[1] = "list"

\* the members of an argument that is one name (<<"str", name>>) or a list of names
names_of(arg) == IF arg[1] = "list" THEN arg[2] ELSE <<arg[2]>>

\* `self.formats[level][col] = format; self.conditions[level][col] = condition` for
\* every level and column given (the levels are levels of the table)
store_formats(t, levels, columns, format, condition) ==
    [t EXCEPT !.formats = [l \in DOMAIN @ |->
                              IF l \in Range(levels)
                              THEN [c \in Range(columns) |-> format] @@ @[l] ELSE @[l]],
              !.conditions = [l \in DOMAIN @ |->
                                 IF l \in Range(levels)
                                 THEN [c \in Range(columns) |-> condition] @@ @[l]
                                 ELSE @[l]]]

\* the branch `elif isinstance(columns, str)` / `elif isinstance(levels, list)`:
\* its loop body names `col`, which is not bound there, so the first turn of the
\* loop raises NameError
formats_loop_fails(levels, columns) ==
    columns[1] = "str" /\ levels[1] = "list" /\ levels[2] # <<>>

\* CollapsibleTable.add_column_formats(levels, columns, format, condition); levels
\* and columns are <<"str", name>> or <<"list", names>>.  Every exception raised
\* inside (for a non-parallel pair, or the NameError) is caught by the method's own
\* bare `except:` (which prints 'error'), so the call returns with nothing stored.
add_column_formats(levels, columns, format, condition) ==
    /\ pc = "idle"
    /\ ncalls < MaxFormatCalls
    /\ ncalls' = ncalls + 1
    /\ table' = IF not_parallel(format, condition) \/ formats_loop_fails(levels, columns)
                THEN table
                ELSE store_formats(table, names_of(levels), names_of(columns),
                                   format, condition)
    /\ last_call' = called("add_column_formats", <<levels, columns, format, condition>>,
                           FALSE, <<>>)
    /\ UNCHANGED <<pc, table_val, total_row, stack, filter, worksheet, log, tlog, ctor,
                   sched, flat, chart>>

\* CollapsibleTable.add_links(level, column, link_mapping); link_mapping is a
\* function from cell values to URLs
add_links(level, column, link_mapping) ==
    /\ pc = "idle"
    /\ ncalls < MaxLinkCalls
    /\ ncalls' = ncalls + 1
    /\ table' = [table EXCEPT !.links =
                     LET inner == IF level \in DOMAIN @ THEN @[level] ELSE <<>> IN
                     (level :> ((column :> link_mapping) @@ inner)) @@ @]
    /\ last_call' = called("add_links", <<level, column, link_mapping>>, FALSE, <<>>)
    /\ UNCHANGED <<pc, table_val, total_row, stack, filter, worksheet, log, tlog, ctor,
                   sched, flat, chart>>

\* CollapsibleTable.add_data_validation(column, level, dropdown_values, condition),
\* the other parameters left at their defaults
add_data_validation(column, level, dropdown_values, condition) ==
    /\ pc = "idle"
    /\ ncalls < MaxValidationCalls
    /\ ncalls' = ncalls + 1
    /\ table' = [table EXCEPT
                    !.data_validation =
                        LET inner == IF level \in DOMAIN @ THEN @[level] ELSE <<>> IN
                        (level :> ((column :> dropdown_values) @@ inner)) @@ @,
                    !.data_validation_condition =
                        LET inner == IF level \in DOMAIN @ THEN @[level] ELSE <<>> IN
                        (level :> ((column :> condition) @@ inner)) @@ @]
    /\ last_call' = called("add_data_validation",
                           <<column, level, dropdown_values, condition>>, FALSE, <<>>)
    /\ UNCHANGED <<pc, table_val, total_row, stack, filter, worksheet, log, tlog, ctor,
                   sched, flat, chart>>

\* list + list
concat(a, b) == a \o b

\* CollapsibleTable.hide_columns(columns): columns is <<"str", name>> or
\* <<"list", names>>; table.hidden_columns is None (<<>>) or a list (<<list>>)
hide_columns(columns) ==
    /\ pc = "idle"
    /\ ncalls < MaxHideCalls
    /\ ncalls' = ncalls + 1
    /\ LET given == IF columns[1] = "str" THEN <<columns[2]>> ELSE columns[2] IN
       table' = [table EXCEPT !.hidden_columns =
                     IF @ = <<>> THEN <<given>> ELSE <<concat(@[1], given)>>]
    /\ last_call' = called("hide_columns", <<columns>>, FALSE, <<>>)
    /\ UNCHANGED <<pc, table_val, total_row, stack, filter, worksheet, log, tlog, ctor,
                   sched, flat, chart>>

\* CollapsibleTable.add_total_formats(columns: str, format, condition)
add_total_formats(columns, format, condition) ==
    /\ pc = "idle"
    /\ ncalls < MaxTotalCalls
    /\ ncalls' = ncalls + 1
    /\ table' = IF not_parallel(format, condition) THEN table
                ELSE [table EXCEPT !.total_formats = (columns :> format) @@ @,
                                   !.total_conditions = (columns :> condition) @@ @]
    /\ last_call' = called("add_total_formats", <<columns, format, condition>>, FALSE, <<>>)
    /\ UNCHANGED <<pc, table_val, total_row, stack, filter, worksheet, log, tlog, ctor,
                   sched, flat, chart>>

\* (an add_total that stores the frame before it looks at its length)
add_total_stored_first(line) ==
    /\ pc = "idle"
    /\ ncalls < MaxTotalCalls
    /\ ncalls' = ncalls + 1
    /\ table' = [table EXCEPT !.total_row_values = <<line>>]
    /\ last_call' = called("add_total", <<line>>, Len(line.rows) > 1, <<>>)
    /\ UNCHANGED <<pc, table_val, total_row, stack, filter, worksheet, log, tlog, ctor,
                   sched, flat, chart>>

\* CollapsibleTable.add_total(line): a frame of more than one row raises (the raise
\* is outside any try, so it reaches the caller); otherwise the frame is stored
add_total(line) ==
    /\ pc = "idle"
    /\ ncalls < MaxTotalCalls
    /\ ncalls' = ncalls + 1
    /\ table' = IF Len(line.rows) > 1 THEN table
                ELSE [table EXCEPT !.total_row_values = <<line>>]
    /\ last_call' = called("add_total", <<line>>, Len(line.rows) > 1, <<>>)
    /\ UNCHANGED <<pc, table_val, total_row, stack, filter, worksheet, log, tlog, ctor,
                   sched, flat, chart>>

\* Table.__init__(name, data) with the default start_col, header_row and data_row:
\* data is the sequence of the rows of the frame, whose columns are "A" and "B".
\* worksheet is <<>> as long as the attribute has not been set; pc tells how far
\* ExcelWriter.add_table has got with this table ("idle", "done", "error").
new_flat_table(data, setting) ==
    [name |-> "Table1",
     data |-> data,
     header |-> <<"A", "B">>,
     start_col |-> start_col_default,
     header_row |-> header_row_default,
     data_row |-> data_row_default,
     start_row |-> data_row_default + 1,
     end_data_row |-> Len(data) + (data_row_default - 1),
     total_row |-> <<"str", setting>>,
     agg_functions |-> <<>>,
     operation_functions |-> <<>>,
     worksheet |-> <<>>,
     pc |-> "idle"]

(***************************************************************************)
(* Inputs.                                                                 *)
(***************************************************************************)
\* Hierarchies of up to MaxLevels levels named 1, 2, ...; level l has the key
\* columns 1..l.  Keys are taken from Keys and a row differs from the all-ones row
\* in at most one column (so there are rows that match their parent, rows that
\* match only some of their ancestors, siblings and orphans).  A hierarchy has at
\* most MaxRows rows in all, and no rows below an empty level (nothing is selected
\* there).  kind is the type of the key cells: "s" (str) or "n" (int).
Keys == {1, 2}

KeyTuples(l) ==
    {k \in [1..l -> Keys] : Cardinality({c \in 1..l : k[c] # 1}) <= 1}

RowsOf(l, kind) == {[c \in 1..l |-> [t |-> kind, v |-> k[c]]] : k \in KeyTuples(l)}

RowSeqs(l, kind, m) == UNION {[1..n -> RowsOf(l, kind)] : n \in 0..m}

TotalRows(d) == SeqSum([i \in 1..Len(d) |-> Len(d[i].rows)])

RECURSIVE DataSets(_, _, _)
DataSets(l, kind, budget) ==
    IF l = 0 THEN {<<>>}
    ELSE UNION {{Append(d, [name |-> l, columns |-> [c \in 1..l |-> c], rows |-> rs]) :
                     rs \in RowSeqs(l, kind,
                                    IF l > 1 /\ d[l - 1].rows = <<>> THEN 0
                                    ELSE budget - TotalRows(d))} :
                d \in DataSets(l - 1, kind, budget)}

\* a one-row total frame with a value for every column of the header
full_total(header) ==
    [columns |-> header,
     rows |-> <<[k \in 1..Len(header) |-> IF k = 1 THEN StrVal(99) ELSE NumVal(8888)]>>]

no_sheet ==
    [cells |-> <<>>, rows |-> <<>>, urls |-> <<>>, hidden |-> {}, validations |-> {},
     tables |-> {}]

InitOf(t, f) ==
    /\ table = t
    /\ pc = "idle"
    /\ table_val = ""
    /\ total_row = 0
    /\ stack = <<>>
    /\ filter = <<>>
    /\ worksheet = no_sheet
    /\ log = <<>>
    /\ tlog = <<>>
    /\ ncalls = 0
    /\ ctor = [data_row |-> t.data_row, header_row |-> t.header_row, total_row |-> t.total_row]
    /\ last_call = called("", <<>>, FALSE, <<>>)
    /\ sched = one_call
    /\ flat = f
    /\ chart = <<>>

InitWith(t) == InitOf(t, new_flat_table(<<>>, "bottom"))

RenderSettings == {"top", "bottom"}

InitRender ==
    \E L \in 1..MaxLevels, kind \in {"s", "n"}, setting \in RenderSettings :
        \E d \in DataSets(L, kind, MaxRows) :
            LET header == [c \in 1..L |-> c] IN
            InitWith([new_table(header, d, <<>>, setting)
                          EXCEPT !.total_row_values = <<full_total(header)>>])

NextRender ==
    \/ add_collapsible_table
    \/ looper_base_case
    \/ looper_select
    \/ looper_call
    \/ write_line
    \/ looper_return
    \/ write_total_row

SpecRender == InitRender /\ [][NextRender]_vars

(***************************************************************************)
(* The sample of main(): Computer Name -> Application Name -> CVE ID.      *)
(* Names are numbered: the computers PCXNW-JCAPOZZA, PCXNW-BCAPOZZA and    *)
(* PCXNW-JCRUZ are 1, 2, 3; the applications '.NET Framework 2.0',         *)
(* '.NET x64 6.0', '7-Zip 9.20.00.0', 'ASP .NET Core x64 2.2' and          *)
(* 'MiKTeX 21.8' are 11..15; 'CVE-2021-k' is 20 + k; 'Total Row' is 99.    *)
(***************************************************************************)
ComputerName == 1
ApplicationName == 2
CVEID == 3
CVECount == 4

sample_header == <<ComputerName, ApplicationName, CVEID, CVECount>>

level_one_data ==
    [name |-> ComputerName,
     columns |-> <<ComputerName, CVECount>>,
     rows |-> [i \in 1..3 |-> <<StrVal(<<1, 2, 3>>[i]), NumVal(<<665, 113, 465>>[i])>>]]

level_two_data ==
    [name |-> ApplicationName,
     columns |-> <<ComputerName, ApplicationName, CVECount>>,
     rows |-> [i \in 1..9 |->
                  <<StrVal(<<1, 1, 1, 2, 2, 2, 2, 3, 3>>[i]),
                    StrVal(<<11, 12, 13, 14, 12, 13, 15, 13, 14>>[i]),
                    NumVal(<<22, 43, 64, 2, 46, 76, 45, 78, 65>>[i])>>]]

level_three_data ==
    [name |-> CVEID,
     columns |-> <<ComputerName, ApplicationName, CVEID, CVECount>>,
     rows |-> [i \in 1..15 |->
                  <<StrVal(<<1, 1, 1, 1, 1, 2, 2, 2, 2, 2, 2, 3, 3, 3, 3>>[i]),
                    StrVal(<<11, 11, 12, 12, 13, 14, 14, 14, 12, 13, 15, 13, 13, 13, 14>>[i]),
                    StrVal(20 + i),
                    NumVal(1)>>]]

sample_data == <<level_one_data, level_two_data, level_three_data>>

\* total_row = {'Computer Name': ['Total Row'], 'CVE Count': [8888]}
sample_total ==
    [columns |-> <<ComputerName, CVECount>>, rows |-> <<<<StrVal(99), NumVal(8888)>>>>]

(***************************************************************************)
(* The specifications.                                                     *)
(***************************************************************************)
\* 1. Rendering of the sample under every data_properties argument: None, or a
\*    dict that gives some levels {} or {'hidden': True} or {'hidden': False}.
DataProperties ==
    {<<>>} \cup
    {<<dp>> : dp \in UNION {[S -> {<<>>, <<TRUE>>, <<FALSE>>}] :
                           S \in SUBSET {ComputerName, ApplicationName, CVEID}}}

InitOutline ==
    \E dp \in DataProperties, setting \in RenderSettings :
        InitWith(new_table(sample_header, sample_data, dp, setting))

SpecOutline == InitOutline /\ [][NextRender]_vars

\* 2. Column formats registered on the sample, then rendering.
gt(n) == [op |-> "gt", arg |-> NumVal(n)]

FormatConditions == {gt(50), gt(100), gt(1000)}

\* "_column_ != `<col>`": a condition on another column of the row
ne_column(col) == [op |-> "ne", arg |-> [t |-> "ref", v |-> col]]

OneFormat == <<"str", "Bold">>
TwoFormats == <<"list", <<"RedBackground", "GreenBackground">>>>

FormatArgs ==
    {<<OneFormat, <<"none">>>>, <<TwoFormats, <<"none">>>>}
    \cup {<<OneFormat, <<"str", c>>>> : c \in FormatConditions}
    \cup {<<TwoFormats, <<"list", <<c1, c2>>>>>> : c1, c2 \in FormatConditions}
    \cup {<<TwoFormats, <<"list", <<gt(50)>>>>>>,
          <<TwoFormats, <<"str", gt(50)>>>>,
          <<OneFormat, <<"list", <<gt(50), gt(100)>>>>>>}
    \cup {<<OneFormat, <<"str", ne_column(CVECount)>>>>}

\* the <<levels, columns>> tried
FormatTargets ==
    {<<<<"str", target[1]>>, <<"str", target[2]>>>> :
         target \in {<<ComputerName, CVECount>>, <<ApplicationName, CVECount>>,
                     <<CVEID, CVECount>>, <<ComputerName, ComputerName>>}}
    \cup {<<<<"list", <<ComputerName, ApplicationName>>>>, <<"str", CVECount>>>>,
          <<<<"list", <<ComputerName, ApplicationName>>>>, <<"list", <<CVECount>>>>>>,
          <<<<"str", CVEID>>, <<"list", <<CVEID, CVECount>>>>>>}

InitFormat == InitWith(new_table(sample_header, sample_data, <<>>, "bottom"))

NextFormat ==
    \/ \E target \in FormatTargets, arg \in FormatArgs :
           add_column_formats(target[1], target[2], arg[1], arg[2])
    \/ NextRender

SpecFormat == InitFormat /\ [][NextFormat]_vars

\* 3. The total registered (or not) on the sample, then rendering.
eq(value) == [op |-> "eq", arg |-> value]

TotalLines ==
    {sample_total,
     [columns |-> <<CVECount>>, rows |-> <<<<NumVal(8888)>>>>],
     [columns |-> <<ComputerName, CVECount>>, rows |-> <<>>],
     [columns |-> <<ComputerName, CVECount>>,
      rows |-> <<<<StrVal(99), NumVal(8888)>>, <<StrVal(99), NumVal(1)>>>>]}

ne(value) == [op |-> "ne", arg |-> value]

\* the calls of add_total_formats tried: <<columns, format, condition>>.  The
\* conditions are "_column_ != 'Total Row'" (true of every column of the total row),
\* "_column_ == 'Total Row'" (false) and "_column_ > 50" (str > int raises).
TotalFormatCalls ==
    {<<CVECount, OneFormat, <<"none">>>>,
     <<CVECount, TwoFormats, <<"none">>>>,
     <<CVECount, OneFormat, <<"str", ne(StrVal(99))>>>>,
     <<CVECount, OneFormat, <<"str", eq(StrVal(99))>>>>,
     <<ComputerName, OneFormat, <<"none">>>>,
     <<ComputerName, OneFormat, <<"str", gt(50)>>>>,
     <<CVECount, TwoFormats, <<"str", gt(50)>>>>}

TotalSettings == {"top", "Bottom", "middle"}

InitTotal ==
    \E setting \in TotalSettings :
        InitWith(new_table(sample_header, sample_data, <<>>, setting))

NextTotal ==
    \/ \E line \in TotalLines : add_total(line)
    \/ \E call \in TotalFormatCalls : add_total_formats(call[1], call[2], call[3])
    \/ NextRender

SpecTotal == InitTotal /\ [][NextTotal]_vars

(***************************************************************************)
(* Properties of one render.                                               *)
(***************************************************************************)
\* the sheet row of the first data row of the render
first_data_row == IF table_val = "top" THEN ctor.data_row + 1 ELSE ctor.data_row

cursor_tracks_rows ==
    pc # "idle" =>
        /\ table.data_row = first_data_row + Len(log)
        /\ \A k \in 1..Len(log) : log[k].row = first_data_row + k - 1
        /\ \A j, k \in 1..Len(log) : j # k => log[j].row # log[k].row

\* C1 (amended): during one render the row cursor starts at the configured
\* data-start row, or one row below it when total_row is 'top', and is advanced by
\* exactly one for every data row written, whatever its level: the k-th data row
\* written lands on sheet row start+k-1, the cursor never decreases, and no two data
\* rows are written to the same sheet row.
C1_cursor ==
    /\ [](cursor_tracks_rows)
    /\ [][table'.data_row >= table.data_row]_vars

\* C1 as the specification states it: the cursor starts at the configured data-start row, whatever the
\* setting of total_row.
C1_starts_at_configured_row ==
    pc # "idle" =>
        /\ table.data_row = ctor.data_row + Len(log)
        /\ \A k \in 1..Len(log) : log[k].row = ctor.data_row + k - 1

\* rows of two levels have been written below a header that 'top' pushed down
C1_witness ==
    /\ pc = "done"
    /\ table_val = "top"
    /\ Len(log) >= 3
    /\ \E j, k \in 1..Len(log) : log[j].level # log[k].level

IsProperPrefix(p, q) == Len(p) < Len(q) /\ SubSeq(q, 1, Len(p)) = p

\* the log entries of the rows written below the k-th written row's row
Descendants(k) == {j \in 1..Len(log) : IsProperPrefix(log[k].path, log[j].path)}

\* the dataset rows of the next level written directly under the k-th written
\* row, in write order
ChildrenWritten(k) ==
    LET js == FilterSeq([j \in 1..Len(log) |-> j],
                        {j \in Descendants(k) : Len(log[j].path) = Len(log[k].path) + 1})
    IN  [i \in 1..Len(js) |-> log[js[i]].line]

\* C2: row emission is post-order: every row selected under a row of a non-deepest
\* level is written before that row, and the descendants of a row are the block of
\* rows written immediately before it (so nothing of a sibling's subtree comes in
\* between, and each level-0 row is immediately preceded by all its descendants).
C2_post_order ==
    \A k \in 1..Len(log) :
        /\ ChildrenWritten(k) = log[k].sub
        /\ Descendants(k) = (k - Cardinality(Descendants(k)))..(k - 1)

\* a level-0 row with descendants on two levels has been written after another
\* level-0 row
C2_witness ==
    \E k \in 2..Len(log) :
        /\ log[k].level = 0
        /\ \E i, j \in Descendants(k) : log[i].level = 1 /\ log[j].level = 2

\* the key cells of the ancestors of the rows a frame has selected: the current
\* lines of the frames below it
ancestor_value(i) ==
    LET name == level_names(table)[i] IN Cell(table, name, stack[i].data[stack[i].index], name)

\* the rows of the level of frame i whose columns named after the levels above
\* equal the values of the current ancestor rows, in dataset order
rows_equal_to_ancestors(i) ==
    LET name == level_names(table)[i]
        n == Len(dataset(table, name).rows)
    IN  FilterSeq([r \in 1..n |-> r],
                  {r \in 1..n : \A j \in 1..(i - 1) :
                        Cell(table, name, r, level_names(table)[j]) = ancestor_value(j)})

\* C3 as the specification states it: the rows of level i > 0 selected (and then written) under an
\* ancestor path are exactly the rows of the level's dataset whose columns named
\* after levels 0..i-1 equal the values of the current ancestor rows, in dataset
\* order.
C3_filter_is_equality ==
    pc = "loop" =>
        \A i \in 2..Len(stack) :
            stack[i].pc # "enter" => stack[i].data = rows_equal_to_ancestors(i)

\* the key columns of level l (numbered from 1) are those named after levels 1..l
key_tuple(t, l, r, upto) ==
    [j \in 1..upto |-> Cell(t, level_names(t)[l], r, level_names(t)[j])]

\* key values are unique within each parent group, and every row of a deeper level
\* matches exactly one row of the level above (hence exactly one ancestor chain)
well_formed(t) ==
    \A l \in 1..Len(t.data) :
        LET n == Len(t.data[l].rows) IN
        /\ \A r1, r2 \in 1..n : r1 # r2 => key_tuple(t, l, r1, l) # key_tuple(t, l, r2, l)
        /\ l > 1 =>
             \A r \in 1..n :
                 Cardinality({q \in 1..Len(t.data[l - 1].rows) :
                                  key_tuple(t, l - 1, q, l - 1) = key_tuple(t, l, r, l - 1)}) = 1

\* C4 as the specification states it: for a well-formed hierarchy the number of data rows written by one
\* render is the sum of the sizes of the level datasets, every row written once.
C4_every_row_once ==
    (pc = "done" /\ well_formed(table)) =>
        /\ Len(log) = TotalRows(table.data)
        /\ \A l \in 1..Len(table.data) : \A r \in 1..Len(table.data[l].rows) :
               Cardinality({k \in 1..Len(log) : log[k].level = l - 1 /\ log[k].line = r}) = 1

\* C7 as the specification states it: with total_row = 'bottom' the total row is written on the sheet row
\* immediately after the last data row written by the traversal.
C7_bottom_after_last_row ==
    (pc = "done" /\ table_val = "bottom") =>
        \A k \in 1..Len(tlog) : tlog[k].row = first_data_row + Len(log)

header_written_on(row) ==
    \A k \in 1..Len(table.header) :
        /\ <<row, table.start_col + (k - 1)>> \in DOMAIN worksheet.cells
        /\ worksheet.cells[<<row, table.start_col + (k - 1)>>].value = [t |-> "c", v |-> table.header[k]]

\* C8 (amended): with total_row = 'top' the total row is written on the
\* configured header row, immediately above the header, and the header row and
\* the first data row are each one row lower than their configured positions.
C8_top_above_header ==
    (pc = "done" /\ table_val = "top") =>
        /\ Len(tlog) = Len(table.header)
        /\ \A k \in 1..Len(tlog) : tlog[k].row = ctor.header_row
        /\ table.header_row = ctor.header_row + 1
        /\ header_written_on(ctor.header_row + 1)
        /\ \A k \in 1..Len(log) : k = 1 => log[k].row = ctor.data_row + 1

\* C8 as the specification states it: the total row is immediately after the header row.
C8_top_after_header ==
    (pc = "done" /\ table_val = "top") =>
        /\ \A k \in 1..Len(tlog) : tlog[k].row = table.header_row + 1
        /\ table.header_row = ctor.header_row + 1
        /\ \A k \in 1..Len(log) : k = 1 => log[k].row = ctor.data_row + 1

\* a render with 'top' has written data rows and the total row
C8_witness ==
    /\ pc = "done"
    /\ table_val = "top"
    /\ Len(log) >= 2
    /\ Len(tlog) >= 2

(***************************************************************************)
(* Properties of the outline, the cell styles and the total row.           *)
(***************************************************************************)
\* the hidden flag data_properties gives for a level, if it gives one
hidden_given(level_name) ==
    /\ table.data_properties # <<>>
    /\ level_name \in DOMAIN table.data_properties[1]
    /\ table.data_properties[1][level_name] # <<>>

\* C5: every written data row gets an outline level equal to the 0-based depth of
\* the level it comes from; its hidden flag is false for depth 0 in all cases, and
\* for depth > 0 it is data_properties[levelName].hidden when that is given and
\* true otherwise.
C5_outline ==
    \A k \in 1..Len(log) :
        LET depth == IndexOf(level_names(table), log[k].level_name) - 1
            props == worksheet.rows[log[k].row]
        IN  /\ log[k].row \in DOMAIN worksheet.rows
            /\ props.level = depth
            /\ depth = 0 => props.hidden = FALSE
            /\ depth > 0 =>
                 props.hidden = IF hidden_given(log[k].level_name)
                                THEN table.data_properties[1][log[k].level_name][1]
                                ELSE TRUE

\* the whole sample is rendered with data_properties asking to hide the outermost
\* level, to show the second and saying nothing of the third
C5_witness ==
    /\ pc = "done"
    /\ Len(log) = 27
    /\ table.data_properties =
           <<(ComputerName :> <<TRUE>>) @@ (ApplicationName :> <<FALSE>>)>>

\* the index of the first condition of the list that is true for the value; 0 if none
first_true(conditions, column) ==
    IF \E i \in 1..Len(conditions) : eval_condition(conditions[i], column) = "T"
    THEN CHOOSE i \in 1..Len(conditions) :
             /\ eval_condition(conditions[i], column) = "T"
             /\ \A j \in 1..(i - 1) : eval_condition(conditions[j], column) # "T"
    ELSE 0

\* C6 as the specification states it: with a list of conditions and a parallel list of formats, the
\* style a cell ends up with is the format at the index of the first condition that
\* is true for the row, and no style when no condition is true.
C6_first_true_wins ==
    \A k \in 1..Len(log) :
        LET name == log[k].level_name IN
        \A col \in DOMAIN table.formats[name] :
            table.conditions[name][col][1] = "list" =>
                LET column == Cell(table, name, log[k].line, col)
                    i == first_true(table.conditions[name][col][2], column)
                    cell == worksheet.cells[<<log[k].row, sheet_col(table, col)>>]
                IN  cell.format = IF i = 0 THEN NoStyle ELSE table.formats[name][col][2][i]

\* the sequence of the columns the total row has written, in write order
total_columns_written == [k \in 1..Len(tlog) |-> tlog[k].col]

\* a total record: what add_total has stored is a frame of one row
total_record_registered ==
    table.total_row_values # <<>> /\ Len(table.total_row_values[1].rows) = 1

\* the evaluation of some registered total condition raises
total_condition_raises ==
    \E col \in DOMAIN table.total_conditions :
        /\ col \in Range(table.header)
        /\ table.total_conditions[col][1] = "str"
        /\ eval_condition(table.total_conditions[col][2], [t |-> "h", v |-> col]) = "E"

\* C9: for each header column a total-row value cell is written if and only if a
\* total record has been registered with add_total and the record contains the
\* column; with no total registered no value cell is written, and neither a missing
\* record nor a missing column makes the render fail (the other columns are written).
C9_total_values ==
    /\ (pc = "done" /\ (table.total_row_values = <<>> \/ total_record_registered)) =>
           \A col \in Range(table.header) :
               col \in Range(total_columns_written)
                   <=> /\ total_record_registered
                       /\ col \in Range(table.total_row_values[1].columns)
    /\ (pc = "error" /\ table_val \in {"top", "bottom"}) => total_condition_raises

\* a render has completed with a record that lacks a column of the header
C9_witness ==
    /\ pc = "done"
    /\ total_record_registered
    /\ table.total_row_values[1].columns = <<CVECount>>
    /\ total_columns_written = <<CVECount>>

\* the total-row cell of a header column
total_cell(col) == worksheet.cells[<<total_row, sheet_col(table, col)>>]

\* C10: in the total row, a column that has a total format (one format name)
\* registered with no condition gets its value from the total record written with
\* that style, and a column with no total format registered gets its value written
\* with no style.
C10_total_styles ==
    (pc = "done" /\ total_record_registered) =>
        \A col \in Range(table.total_row_values[1].columns) :
            LET value == table.total_row_values[1].rows[1][
                             IndexOf(table.total_row_values[1].columns, col)]
            IN  /\ col \notin DOMAIN table.total_formats =>
                      total_cell(col) = [value |-> value, format |-> NoStyle]
                /\ (/\ col \in DOMAIN table.total_formats
                    /\ table.total_formats[col][1] = "str"
                    /\ table.total_conditions[col] = <<"none">>) =>
                      total_cell(col) = [value |-> value, format |-> table.total_formats[col][2]]

\* the sample of main(): 8888 bold in CVE Count, 'Total Row' unstyled in Computer Name
C10_witness ==
    /\ pc = "done"
    /\ table.total_row_values = <<sample_total>>
    /\ table.total_formats = (CVECount :> <<"str", "Bold">>)
    /\ table.total_conditions = (CVECount :> <<"none">>)
    /\ total_cell(CVECount) = [value |-> NumVal(8888), format |-> "Bold"]
    /\ total_cell(ComputerName) = [value |-> StrVal(99), format |-> NoStyle]

(***************************************************************************)
(* Properties of the registration calls and of the configuration errors.   *)
(***************************************************************************)
is_list(x) == x[1] = "list"
is_str(x) == x[1] = "str"

\* C11 as the specification states it: add_column_formats fails, the error reaching
\* the caller, when format and condition are lists of unequal length or when one is
\* a list and the other a single string.
C11_error_reaches_caller ==
    last_call.op = "add_column_formats" =>
        LET format == last_call.args[3]
            condition == last_call.args[4]
        IN  (\/ is_list(format) /\ is_list(condition) /\ Len(format[2]) # Len(condition[2])
             \/ is_list(format) /\ is_str(condition)
             \/ is_str(format) /\ is_list(condition)) => last_call.raised

\* C12: add_total fails when the record has more than one row, and a failed call
\* leaves the previously stored total (or its absence) unchanged; a one-row record
\* replaces the stored total.
C12_add_total ==
    [][(ncalls' = ncalls + 1 /\ last_call'.op = "add_total") =>
           LET line == last_call'.args[1] IN
           /\ Len(line.rows) > 1 => last_call'.raised /\ table' = table
           /\ Len(line.rows) = 1 =>
                  /\ ~last_call'.raised
                  /\ table'.total_row_values = <<line>>]_vars

\* a two-row record has been refused after a one-row record was stored, which is kept
C12_witness ==
    /\ last_call.op = "add_total"
    /\ last_call.raised
    /\ Len(last_call.args[1].rows) = 2
    /\ table.total_row_values = <<sample_total>>

\* the spellings of the two settings, compared without regard to case, that the
\* renders tried here use
ValidSettings == {"top", "Top", "TOP", "bottom", "Bottom", "BOTTOM"}

\* C13: a total_row setting other than 'top' or 'bottom' (compared
\* case-insensitively) makes the render fail, before any cell, header or row
\* property is written to the sheet; a setting that differs from them only in case
\* is not refused.
C13_invalid_setting ==
    /\ (pc # "idle" /\ ctor.total_row[2] \notin ValidSettings) =>
           /\ pc = "error"
           /\ worksheet = no_sheet
           /\ log = <<>> /\ tlog = <<>>
    /\ (pc # "idle" /\ ctor.total_row[2] \in ValidSettings) =>
           table_val \in {"top", "bottom"}

\* the render of a table constructed with total_row = 'middle' has failed
C13_witness ==
    /\ pc = "error"
    /\ ctor.total_row = <<"str", "middle">>
    /\ table.total_row_values # <<>>

\* (C14, first half) a table that has been constructed has a valid total_row
C14_rejected_at_construction ==
    ctor.total_row[1] = "str" /\ ctor.total_row[2] \in ValidSettings

(***************************************************************************)
(* Table._convert and Table.add_total_operation.  A Python str is a        *)
(* sequence of one-character strings here; the names of functions and of   *)
(* columns are TLA+ strings.  The text "_xlfn.AGGREGATE(<code>, 5,         *)
(* <table>[<column>])" that _convert formats is the record                 *)
(* [agg, table, column], one element of the result.                        *)
(***************************************************************************)
AGG_CONVERSION ==
    [name \in {"AVERAGE", "COUNT", "COUNTA", "MAX", "MIN", "PRODUCT", "STDEV.S", "STDEV.P",
               "SUM", "VAR.S", "VAR.P", "MEDIAN", "MODE.SNGL", "LARGE", "SMALL",
               "PERCENTILE.INC", "QUARTILE.INC", "PERCENTILE.EXC", "QUARTILE.EXC"} |->
        CASE name = "AVERAGE" -> 1 [] name = "COUNT" -> 2 [] name = "COUNTA" -> 3
          [] name = "MAX" -> 4 [] name = "MIN" -> 5 [] name = "PRODUCT" -> 6
          [] name = "STDEV.S" -> 7 [] name = "STDEV.P" -> 8 [] name = "SUM" -> 9
          [] name = "VAR.S" -> 10 [] name = "VAR.P" -> 11 [] name = "MEDIAN" -> 12
          [] name = "MODE.SNGL" -> 13 [] name = "LARGE" -> 14 [] name = "SMALL" -> 15
          [] name = "PERCENTILE.INC" -> 16 [] name = "QUARTILE.INC" -> 17
          [] name = "PERCENTILE.EXC" -> 18 [] name = "QUARTILE.EXC" -> 19]

\* the backtick character, written as a grave accent mark here
backtick == "GRAVE"

\* (no case folding)
upper_skipped(name) == name

\* str.upper() on the function names used here
upper(name) ==
    CASE name = "sum" -> "SUM"
      [] name = "Sum" -> "SUM"
      [] name = "max" -> "MAX"
      [] name = "stdev.s" -> "STDEV.S"
      [] name = "foo" -> "FOO"
      [] OTHER -> name

RECURSIVE split(_, _, _)
\* base_string.split('`'): parts is the list so far, its last member being the part
\* that is still growing
split(string, sep, parts) ==
    IF string = <<>> THEN parts
    ELSE IF Head(string) = sep
         THEN split(Tail(string), sep, Append(parts, <<>>))
         ELSE split(Tail(string), sep,
                    [parts EXCEPT ![Len(parts)] = Append(@, Head(string))])

\* (the first function of the list for every placeholder)
function_for_first(aggregation_functions, i) ==
    IF aggregation_functions[1] = "list"
    THEN IF (i \div 2) + 1 > Len(aggregation_functions[2])
         THEN [err |-> "IndexError", name |-> ""]
         ELSE [err |-> "", name |-> upper(aggregation_functions[2][1])]
    ELSE [err |-> "", name |-> upper(aggregation_functions[2])]

\* the function name the i-th part (i counted from 0, odd) is converted with;
\* a list shorter than the placeholders raises IndexError
function_for(aggregation_functions, i) ==
    IF aggregation_functions[1] = "list"
    THEN IF (i \div 2) + 1 > Len(aggregation_functions[2])
         THEN [err |-> "IndexError", name |-> ""]
         ELSE [err |-> "", name |-> upper(aggregation_functions[2][(i \div 2) + 1])]
    ELSE [err |-> "", name |-> upper(aggregation_functions[2])]

RECURSIVE convert_parts(_, _, _, _, _)
\* `for i, part in enumerate(parts)` of _convert, from part i (counted from 0) on
convert_parts(parts, table_name, aggregation_functions, i, result) ==
    IF i >= Len(parts) THEN [err |-> "", token |-> "", value |-> Append(result, ")")]
    ELSE LET part == parts[i + 1] IN
         IF i % 2 = 0
         THEN convert_parts(parts, table_name, aggregation_functions, i + 1, result \o part)
         ELSE LET f == function_for(aggregation_functions, i) IN
              IF f.err # "" THEN [err |-> f.err, token |-> "", value |-> <<>>]
              ELSE IF f.name \notin DOMAIN AGG_CONVERSION
                   THEN [err |-> "KeyError", token |-> f.name, value |-> <<>>]
                   ELSE convert_parts(parts, table_name, aggregation_functions, i + 1,
                                      Append(result, [agg |-> AGG_CONVERSION[f.name],
                                                      table |-> table_name,
                                                      column |-> part]))

\* `len([part for part in parts if part]) - 1 != len(aggregation_functions)`
count_mismatch(parts, aggregation_functions) ==
    Cardinality({i \in 1..Len(parts) : parts[i] # <<>>}) - 1 # Len(aggregation_functions[2])

\* Table._convert(base_string, table_name, aggregation_functions)
convert(base_string, table_name, aggregation_functions) ==
    LET parts == split(base_string, backtick, <<<<>>>>) IN
    IF aggregation_functions[1] = "list" /\ count_mismatch(parts, aggregation_functions)
    THEN [err |-> "ValueError", token |-> "", value |-> <<>>]
    ELSE IF aggregation_functions[1] \notin {"list", "str"}
         THEN [err |-> "TypeError", token |-> "", value |-> <<>>]
         ELSE convert_parts(parts, table_name, aggregation_functions, 0, <<"=", "(">>)

(***************************************************************************)
(* Templates and function arguments tried.  A template is written as a     *)
(* sequence of tokens: "-" is one character of literal text, "A" and "B"   *)
(* are placeholders for the columns of those names.                        *)
(***************************************************************************)
Tokens == {"-", "A", "B"}

Templates == UNION {[1..n -> Tokens] : n \in 0..MaxTokens}

RECURSIVE template_text(_)
\* the text of a template: a placeholder is the column name between backticks
template_text(tokens) ==
    IF tokens = <<>> THEN <<>>
    ELSE (IF Head(tokens) = "-" THEN <<"-">> ELSE <<backtick, Head(tokens), backtick>>)
         \o template_text(Tail(tokens))

FunctionNames == {"SUM", "max", "FOO"}

FunctionArgs ==
    {<<"none">>}
    \cup {<<"str", name>> : name \in FunctionNames \cup {"Sum"}}
    \cup {<<"list", names>> : names \in UNION {[1..n -> FunctionNames] : n \in 0..MaxFunctions}}

\* a call of Table._convert; the tokens of the template are kept with the arguments
call_convert(tokens, aggregation_functions) ==
    /\ pc = "idle"
    /\ last_call.op = ""
    /\ LET r == convert(template_text(tokens), "Table1", aggregation_functions) IN
       last_call' = called("_convert",
                           <<template_text(tokens), "Table1", aggregation_functions, tokens>>,
                           r.err # "", r)
    /\ UNCHANGED <<table, pc, table_val, total_row, stack, filter, worksheet, log, tlog,
                   ncalls, ctor,
                   sched, flat, chart>>

RECURSIVE store_operation(_, _, _, _)
\* `for col in columns: self.agg_functions[col] = agg_function;
\*  self.operation_functions[col] = operation_function`
store_operation(t, columns, agg_function, operation_function) ==
    IF columns = <<>> THEN t
    ELSE store_operation([t EXCEPT !.agg_functions = (Head(columns) :> agg_function) @@ @,
                                   !.operation_functions =
                                       (Head(columns) :> operation_function) @@ @],
                         Tail(columns), agg_function, operation_function)

\* (a registration that stores what it is given before it checks it)
add_total_operation_unchecked(columns, agg_function, operation_function) ==
    /\ pc = "idle"
    /\ ncalls < MaxOperationCalls
    /\ ncalls' = ncalls + 1
    /\ LET raised == \/ agg_function = <<"none">>
                     \/ operation_function = <<"none">> /\ agg_function[1] = "list"
                     \/ columns[1] \notin {"str", "list"}
           names == IF columns[1] = "list" THEN columns[2]
                    ELSE IF columns[1] = "str" THEN <<columns[2]>> ELSE <<>>
       IN  /\ last_call' = called("add_total_operation",
                                  <<columns, agg_function, operation_function>>,
                                  raised,
                                  IF raised THEN <<>>
                                  ELSE <<agg_function, operation_function>>)
           /\ flat' = store_operation(flat, names, agg_function, operation_function)
    /\ UNCHANGED <<table, pc, table_val, total_row, stack, filter, worksheet, log, tlog,
                   ctor, sched, chart>>

\* Table.add_total_operation(columns, agg_function, operation_function): the three
\* argument checks, then the two values are stored as they are (out) for the column
\* or for every column of the list; the template is not converted here.  None is
\* <<"none">>; columns is <<"str", name>>, <<"list", names>> or something else
\* (<<"int", n>>), which raises before anything is stored.
add_total_operation(columns, agg_function, operation_function) ==
    /\ pc = "idle"
    /\ ncalls < MaxOperationCalls
    /\ ncalls' = ncalls + 1
    /\ LET raised == \/ agg_function = <<"none">>
                     \/ operation_function = <<"none">> /\ agg_function[1] = "list"
                     \/ columns[1] \notin {"str", "list"}
           names == IF columns[1] = "list" THEN columns[2] ELSE <<columns[2]>>
       IN  /\ last_call' = called("add_total_operation",
                                  <<columns, agg_function, operation_function>>,
                                  raised,
                                  IF raised THEN <<>>
                                  ELSE <<agg_function, operation_function>>)
           /\ flat' = IF raised THEN flat
                      ELSE store_operation(flat, names, agg_function, operation_function)
    /\ UNCHANGED <<table, pc, table_val, total_row, stack, filter, worksheet, log, tlog,
                   ctor, sched, chart>>

OperationArgs == {<<"none">>} \cup {<<"str", template_text(tokens)>> : tokens \in Templates}

InitConvert ==
    \E setting \in TotalSettings :
        InitWith(new_table(sample_header, sample_data, <<>>, setting))

\* One call per behaviour: neither method reads, in what it checks, what an earlier
\* call left.
NextConvert ==
    \/ \E tokens \in Templates, f \in FunctionArgs : call_convert(tokens, f)
    \/ \E f \in FunctionArgs, o \in OperationArgs :
           last_call.op = "" /\ add_total_operation(<<"str", "A">>, f, o)

SpecConvert == InitConvert /\ [][NextConvert]_vars

(***************************************************************************)
(* Properties of Table._convert.                                           *)
(***************************************************************************)
\* the call of _convert kept in last_call: its template, functions and result
convert_called == last_call.op = "_convert"
convert_tokens == last_call.args[4]
convert_functions == last_call.args[3]
convert_result == last_call.out

\* the positions of the placeholders in a template, left to right
placeholders(tokens) == FilterSeq([i \in 1..Len(tokens) |-> i], {i \in 1..Len(tokens) : tokens[i] # "-"})

\* C17 as the specification states it: given a list of function names, _convert
\* raises the count-mismatch error exactly when the number of placeholders differs
\* from the length of the list, whatever literal text surrounds the placeholders.
C17_mismatch_iff_counts_differ ==
    (convert_called /\ is_list(convert_functions)) =>
        (convert_result.err = "ValueError"
            <=> Len(placeholders(convert_tokens)) # Len(convert_functions[2]))

\* the names of the registry, in any case of letters used here, with their codes
code_of(name) ==
    CASE name \in {"SUM", "sum", "Sum"} -> 9
      [] name \in {"MAX", "max"} -> 4
      [] OTHER -> 0

\* the formula the claim describes: the literal text in order, the i-th placeholder
\* replaced by the aggregate over its column with the code of its function
expected_formula(tokens, functions) ==
    LET ps == placeholders(tokens)
        name(i) == IF is_list(functions) THEN functions[2][IndexOf(ps, i)] ELSE functions[2]
    IN  <<"=", "(">>
        \o [i \in 1..Len(tokens) |->
               IF tokens[i] = "-" THEN "-"
               ELSE [agg |-> code_of(name(i)), table |-> last_call.args[2],
                     column |-> <<tokens[i]>>]]
        \o <<")">>

\* C18: what _convert returns is the template's literal text unchanged and in
\* order, with the i-th placeholder replaced by the aggregate over that column with
\* the code of the i-th listed function, or of the single function when one name is
\* given.
C18_formula ==
    (convert_called /\ ~last_call.raised) =>
        convert_result.value = expected_formula(convert_tokens, convert_functions)

\* `A`-`B` with ['SUM', 'max'] has given the two aggregates joined by the literal text
C18_witness ==
    /\ convert_called
    /\ convert_tokens = <<"A", "-", "B">>
    /\ convert_functions = <<"list", <<"SUM", "max">>>>
    /\ convert_result.value =
           <<"=", "(", [agg |-> 9, table |-> "Table1", column |-> <<"A">>], "-",
             [agg |-> 4, table |-> "Table1", column |-> <<"B">>], ")">>

\* the names a call of _convert needs: the one name, or the names of the list at
\* the positions of the placeholders, when the template has a placeholder
names_needed ==
    IF placeholders(convert_tokens) = <<>> THEN {}
    ELSE IF is_list(convert_functions)
         THEN {convert_functions[2][i] :
                   i \in 1..Len(convert_functions[2]) \cap 1..Len(placeholders(convert_tokens))}
         ELSE {convert_functions[2]}

\* the names given to a call of _convert
names_given ==
    IF is_list(convert_functions) THEN Range(convert_functions[2])
    ELSE IF is_str(convert_functions) THEN {convert_functions[2]} ELSE {}

operation_mismatch_refused ==
    (/\ last_call.op = "add_total_operation"
     /\ is_list(last_call.args[2])
     /\ is_str(last_call.args[3])
     /\ convert(last_call.args[3][2], "Table1", last_call.args[2]).err = "ValueError")
        => last_call.raised

(***************************************************************************)
(* Links and hidden columns.                                               *)
(***************************************************************************)
\* 5. Links registered on the sample, then rendering.
LinkCalls ==
    {<<ComputerName, ComputerName, (StrVal(1) :> "url1")>>,
     <<ComputerName, CVECount, (NumVal(665) :> "url2")>>,
     <<CVEID, ApplicationName, (StrVal(12) :> "url3") @@ (StrVal(13) :> "url4")>>,
     <<ApplicationName, ApplicationName, (StrVal(13) :> "url5")>>}

InitLinks == InitWith(new_table(sample_header, sample_data, <<>>, "top"))

NextLinks ==
    \/ \E call \in LinkCalls : add_links(call[1], call[2], call[3])
    \/ NextRender

SpecLinks == InitLinks /\ [][NextLinks]_vars

\* 6. Columns hidden on a one-level table (the first level of the sample), then
\*    rendering.  CVE ID is not a column of its header.
one_level_header == <<ComputerName, CVECount>>

HideArgs ==
    {<<"str", ComputerName>>, <<"str", CVECount>>, <<"str", CVEID>>,
     <<"list", <<ComputerName, CVECount>>>>, <<"list", <<>>>>}

InitHide == InitWith(new_table(one_level_header, <<level_one_data>>, <<>>, "bottom"))

NextHide ==
    \/ \E columns \in HideArgs : hide_columns(columns)
    \/ NextRender

SpecHide == InitHide /\ [][NextHide]_vars

\* C15 as the specification states it: after add_links(level, column, mapping),
\* every cell written for that column in a row of that level whose value is a key
\* of the mapping is a hyperlink to the mapped URL labelled with the value's string
\* form, for any column of the level.
C15_links_written ==
    \A k \in 1..Len(log) :
        LET name == log[k].level_name IN
        name \in DOMAIN table.links =>
            \A col \in DOMAIN table.links[name] \cap Range(dataset(table, name).columns) :
                LET value == Cell(table, name, log[k].line, col)
                    at == <<log[k].row, sheet_col(table, col)>>
                IN  value \in DOMAIN table.links[name][col] =>
                        /\ at \in DOMAIN worksheet.urls
                        /\ worksheet.urls[at] = [url |-> table.links[name][col][value],
                                                 string |-> Str(value)]

\* C16 as the specification states it: after any sequence of hide_columns calls the
\* hidden-column collection holds every supplied column exactly once.
C16_each_column_once ==
    table.hidden_columns # <<>> =>
        LET hidden == table.hidden_columns[1] IN
        /\ \A i, j \in 1..Len(hidden) : i # j => hidden[i] # hidden[j]
        /\ last_call.op = "hide_columns" =>
               \A c \in (IF last_call.args[1][1] = "str" THEN {last_call.args[1][2]}
                         ELSE Range(last_call.args[1][2])) : c \in Range(hidden)

\* C20 as the specification states it: in a collapsible table a condition that
\* refers to another column of the row through a backtick placeholder is evaluated
\* and does not make the render fail.
C20_row_is_bound ==
    (pc = "error" /\ table_val \in {"top", "bottom"}) =>
        ~ \E name \in DOMAIN table.conditions : \E col \in DOMAIN table.conditions[name] :
              /\ table.conditions[name][col][1] = "str"
              /\ table.conditions[name][col][2].arg.t = "ref"

\* C14 as the specification states it: every configuration error is raised by the
\* call that introduced it: a constructed table has a valid total_row, and a
\* total operation whose template does not match its function list is refused
\* when it is registered.
C14_errors_not_deferred ==
    /\ C14_rejected_at_construction
    /\ operation_mismatch_refused

(***************************************************************************)
(* The same table rendered twice.                                          *)
(***************************************************************************)
\* 7. Two calls of add_collapsible_table on a one-level table (the first level of
\*    the sample, with the sample's total), one after the other or interleaved.
InitTwo ==
    \E setting \in RenderSettings :
        InitWith([new_table(one_level_header, <<level_one_data>>, <<>>, setting)
                      EXCEPT !.total_row_values = <<sample_total>>])

NextTwo ==
    \/ add_collapsible_table
    \/ looper_base_case
    \/ looper_select
    \/ looper_call
    \/ write_line_cells
    \/ write_line_advance
    \/ looper_return
    \/ write_total_row
    \/ switch

SpecTwo == InitTwo /\ [][NextTwo]_vars

\* the table was constructed with total_row = 'bottom'
made_for_bottom == ctor.total_row = <<"str", "bottom">>

\* C21: when the calls do not interleave and total_row is 'bottom', the cursor is
\* never reset: the k-th data row written, by whichever call, lands on the
\* data-start row plus k - 1, so the second call writes its first data row where
\* the first call left the cursor, and after a completed call the cursor is the
\* data-start row plus the number of data rows written so far.
C21_cursor_not_reset ==
    (sched.serial /\ made_for_bottom) =>
        /\ \A k \in 1..Len(log) : log[k].row = ctor.data_row + k - 1
        /\ pc = "done" => table.data_row = ctor.data_row + Len(log)

\* the second call has written its first data row below the three of the first call
C21_witness ==
    /\ sched.serial
    /\ made_for_bottom
    /\ \E k \in 2..Len(log) :
           /\ log[k].by # log[1].by
           /\ log[k].line = 1
           /\ log[k].row = ctor.data_row + 3

\* C22: calls that do not interleave never put two data rows on the same sheet row
\* (interleaved calls can: see the witness).
C22_serialized_rows_distinct ==
    sched.serial =>
        \A i, j \in 1..Len(log) : i # j => log[i].row # log[j].row

\* the calls have interleaved and two different data rows are on the same sheet row
C22_witness ==
    /\ ~sched.serial
    /\ \E i, j \in 1..Len(log) :
           /\ log[i].row = log[j].row
           /\ log[i].line # log[j].line
           /\ log[i].by # log[j].by

\* C27 as the specification states it: a completed render leaves total_row,
\* header_row and title_row as they were constructed, so that the table can be
\* rendered again without an error.
C27_configuration_kept ==
    /\ pc = "done" =>
           /\ table.total_row = ctor.total_row
           /\ table.header_row = ctor.header_row
           /\ table.title_row = header_row_default
    /\ sched.serial => pc # "error"

(***************************************************************************)
(* The total row with lists of conditions.                                 *)
(***************************************************************************)
\* 8. Total formats with lists of conditions registered on the sample, which has
\*    its total, then rendering.  "_column_ != 'Total Row'" is true of every column
\*    of the total row and "_column_ == 'Total Row'" is false.
TotalListCalls ==
    {<<col, TwoFormats, <<"list", <<c1, c2>>>>>> :
         col \in {CVECount, ComputerName},
         c1 \in {ne(StrVal(99)), eq(StrVal(99))},
         c2 \in {ne(StrVal(99)), eq(StrVal(99))}}
    \cup {<<CVECount, OneFormat, <<"none">>>>}

InitTotalList ==
    \E setting \in RenderSettings :
        InitWith([new_table(sample_header, sample_data, <<>>, setting)
                      EXCEPT !.total_row_values = <<sample_total>>])

NextTotalList ==
    \/ \E call \in TotalListCalls : add_total_formats(call[1], call[2], call[3])
    \/ NextRender

SpecTotalList == InitTotalList /\ [][NextTotalList]_vars

\* C23 as the specification states it: in the total row, a column with a list of
\* total conditions and a parallel list of total formats gets the format at the
\* index of the first true condition, and no style when no condition is true.
C23_total_first_true ==
    (pc = "done" /\ total_record_registered) =>
        \A col \in Range(table.total_row_values[1].columns) \cap DOMAIN table.total_formats :
            (/\ table.total_formats[col][1] = "list"
             /\ table.total_conditions[col][1] = "list"
             /\ Len(table.total_formats[col][2]) = Len(table.total_conditions[col][2])) =>
                LET i == first_true(table.total_conditions[col][2], [t |-> "h", v |-> col])
                IN  total_cell(col).format =
                        IF i = 0 THEN NoStyle ELSE table.total_formats[col][2][i]

(***************************************************************************)
(* A hierarchy deep enough for the filter to be truncated.                 *)
(***************************************************************************)
\* 9. DeepLevels levels named 1, 2, ...; level l has the key columns 1..l and the
\*    rows whose keys are all 1 except at most one 2, in column l - 1 or l.  Every
\*    row but those of the last level has children, and a row of level 2 or deeper
\*    has a sibling that is expanded after it.
deep_rows(l, kind) ==
    LET row(c2) == [c \in 1..l |-> [t |-> kind, v |-> IF c = c2 THEN 2 ELSE 1]] IN
    IF l = 1 THEN <<row(0), row(1)>> ELSE <<row(0), row(l), row(l - 1)>>

deep_data(kind) ==
    [l \in 1..DeepLevels |->
        [name |-> l, columns |-> [c \in 1..l |-> c], rows |-> deep_rows(l, kind)]]

InitDeep ==
    \E kind \in {"s", "n"}, setting \in RenderSettings :
        InitWith(new_table([c \in 1..DeepLevels |-> c], deep_data(kind), <<>>, setting))

SpecDeep == InitDeep /\ [][NextRender]_vars

\* the filter a call at a position has to select with: one entry per level above,
\* in order, holding the key of the row being expanded at that level
ancestors_filter(position) ==
    [i \in 1..position |->
        [key |-> level_names(table)[i],
         value |-> Cell(table, level_names(table)[i], stack[i].data[stack[i].index],
                        level_names(table)[i])]]

\* C24: each time the traversal selects the rows of level p, the filter holds
\* exactly p entries, keyed by the names of the levels 0..p-1 in order, each with
\* the value of the ancestor row being expanded at that level, and the rows selected
\* are those the query gives for that filter (no entry left by a sibling subtree is
\* used).
C24_filter_of_ancestors ==
    (pc = "loop" /\ top_frame.pc = "for" /\ top_frame.index = 0) =>
        LET p == top_frame.position IN
        /\ filter = ancestors_filter(p)
        /\ p > 0 => top_frame.data =
                        query(table, level_names(table)[p + 1], ancestors_filter(p)).rows

\* rows of level 2 have been selected for the second child of a row whose first
\* child was expanded down to level 2, which had left an entry of level 2 in the
\* filter
C24_witness ==
    /\ pc = "loop" /\ top_frame.pc = "for" /\ top_frame.index = 0
    /\ top_frame.position = 2
    /\ top_frame.data # <<>>
    /\ \E k \in 1..Len(log) :
           /\ log[k].level = 2
           /\ log[k].path[1] = stack[1].data[stack[1].index]
           /\ log[k].path[2] # stack[2].data[stack[2].index]

(***************************************************************************)
(* The flat table (Table, ExcelWriter.add_table) and the chart.            *)
(***************************************************************************)
\* 'No Results' and '' : the row add_table puts in place of an empty frame
no_results == <<StrVal(98), StrVal(0)>>

\* table.start_col + table.header.index(col) for the flat table
flat_col(t, col) == t.start_col + (IndexOf(t.header, col) - 1)

RECURSIVE flat_header(_, _, _)
flat_header(t, ws, k) ==
    IF k > Len(t.header) THEN ws
    ELSE flat_header(t,
                     ws_write(ws, t.header_row, t.start_col + (k - 1),
                              [t |-> "c", v |-> t.header[k]], "BoldWrapped"),
                     k + 1)

RECURSIVE flat_rows(_, _, _)
\* `for index, row in table.data.iterrows()` from the k-th row on, no format, link or
\* validation being registered on the flat table: every cell is written as it is,
\* the k-th row on sheet row data_row + k - 1
flat_rows(t, ws, k) ==
    IF k > Len(t.data) THEN ws
    ELSE flat_rows(t,
                   ws_write(ws_write(ws, t.data_row + (k - 1), flat_col(t, "A"),
                                     t.data[k][1], NoStyle),
                            t.data_row + (k - 1), flat_col(t, "B"), t.data[k][2], NoStyle),
                   k + 1)

\* add_table._write_total_formula(formatting=False) for one column: the formula
\* written, or the error the call ends with.  A column that has an aggregation but
\* no entry in operation_functions gets the aggregate written directly; otherwise
\* _convert is called with the template, or with "`<col>`" when the template is None
\* and the aggregation is one name; a list with the template None makes _convert
\* fail on None.split.
flat_total_formula(t, col) ==
    IF col \notin DOMAIN t.agg_functions
    THEN [err |-> "", token |-> "", value |-> StrVal(0)]
    ELSE LET f == t.agg_functions[col] IN
         IF col \notin DOMAIN t.operation_functions /\ f[1] = "str"
         THEN [err |-> "", token |-> "",
               value |-> <<"=", [agg |-> IF f[2] \in DOMAIN AGG_CONVERSION
                                         THEN AGG_CONVERSION[f[2]] ELSE 0,
                                 table |-> t.name, column |-> <<col>>]>>]
         ELSE LET o == t.operation_functions[col] IN
              IF o = <<"none">>
              THEN IF f[1] = "str" THEN convert(<<backtick, col, backtick>>, t.name, f)
                   ELSE [err |-> "AttributeError", token |-> "", value |-> <<>>]
              ELSE convert(o[2], t.name, f)

RECURSIVE flat_total_cols(_, _, _, _)
\* "Write Total Row" of add_table from the k-th column on; r is [ws, err]
flat_total_cols(t, r, row, k) ==
    IF k > Len(t.header) \/ r.err # "" THEN r
    ELSE LET col == t.header[k]
             f == flat_total_formula(t, col)
         IN  flat_total_cols(t,
                 IF f.err # "" THEN [r EXCEPT !.err = f.err]
                 ELSE [r EXCEPT !.ws = ws_write(r.ws, row, flat_col(t, col), f.value, NoStyle)],
                 row, k + 1)

\* the Table after the `if table_val == 'top'` branch of add_table
flat_shift_for_top(t) ==
    [t EXCEPT !.total_row = <<"int", t.header_row>>,
              !.header_row = t.header_row + 1,
              !.data_row = t.data_row + 1,
              !.end_data_row = t.end_data_row + 1]

\* ExcelWriter.add_table(table, sheet_name) on the flat table, the first time
add_table ==
    /\ flat.pc = "idle"
    /\ LET t0 == [flat EXCEPT !.worksheet = <<"sheet">>,
                              !.data = IF flat.data = <<>> THEN <<no_results>> ELSE @,
                              !.end_data_row = IF flat.data = <<>> THEN @ + 1 ELSE @]
           val == lower(t0.total_row[2])
       IN  IF val \notin {"top", "bottom"}
           THEN /\ flat' = [t0 EXCEPT !.pc = "error"]
                /\ UNCHANGED <<worksheet, log>>
           ELSE LET t1 == IF val = "top" THEN flat_shift_for_top(t0) ELSE t0
                    row == IF val = "top" THEN t0.header_row ELSE Len(t0.data) + t0.data_row
                    ws1 == [flat_header(t1, worksheet, 1) EXCEPT
                               !.tables = @ \cup {[name |-> t1.name, first |-> t1.header_row,
                                                   last |-> t1.end_data_row]}]
                    ws2 == flat_rows(t1, ws1, 1)
                    r == flat_total_cols(t1, [ws |-> ws2, err |-> ""], row, 1)
                IN  /\ worksheet' = r.ws
                    /\ log' = log \o [k \in 1..Len(t1.data) |->
                                         [row |-> t1.data_row + (k - 1), line |-> k,
                                          table |-> t1.name]]
                    /\ flat' = [t1 EXCEPT !.data_row = @ + Len(t1.data),
                                          !.pc = IF r.err # "" THEN "error" ELSE "done"]
    /\ UNCHANGED <<table, pc, table_val, total_row, stack, filter, tlog, ncalls, ctor,
                   last_call, sched, chart>>

\* Chart.add_value(table, category, column): the series refers to the sheet rows
\* table.start_row .. table.data_row (counted from 1, as sheet references are) and
\* to the header cell in row table.header_row + 1.  table.worksheet is set by
\* add_table only: before it the attribute does not exist and the call raises.
add_value(category, column) ==
    /\ Len(chart) < MaxSeries
    /\ chart' = IF flat.worksheet = <<>> THEN chart
                ELSE Append(chart, [sheet |-> flat.worksheet[1],
                                    name_col |-> flat_col(flat, column),
                                    name_row |-> flat.header_row + 1,
                                    category_col |-> flat_col(flat, category),
                                    first |-> flat.start_row,
                                    last |-> flat.data_row])
    /\ last_call' = called("add_value", <<category, column>>, flat.worksheet = <<>>, <<>>)
    /\ UNCHANGED <<table, pc, table_val, total_row, stack, filter, worksheet, log, tlog,
                   ncalls, ctor, sched, flat>>

\* 10. A flat table of up to MaxFlatRows rows: total operations are registered, the
\*     table is rendered, and series are added to a chart before or after that.
flat_data(n) == [k \in 1..n |-> <<StrVal(k), NumVal(10 * k)>>]

\* the calls of add_total_operation tried: <<columns, agg_function, operation_function>>
OperationCalls ==
    {<<<<"str", "A">>, <<"str", "SUM">>, <<"none">>>>,
     <<<<"str", "B">>, <<"list", <<"SUM", "max">>>>, <<"str", template_text(<<"A", "-", "B">>)>>>>,
     <<<<"str", "B">>, <<"list", <<"SUM">>>>, <<"none">>>>,
     <<<<"str", "B">>, <<"none">>, <<"str", template_text(<<"A">>)>>>>,
     <<<<"str", "B">>, <<"none">>, <<"none">>>>,
     <<<<"list", <<"A", "B">>>>, <<"str", "max">>, <<"none">>>>,
     <<<<"str", "B">>, <<"list", <<"SUM">>>>, <<"str", template_text(<<>>)>>>>,
     <<<<"int", 0>>, <<"str", "SUM">>, <<"none">>>>}

InitFlat ==
    \E n \in 0..MaxFlatRows, setting \in RenderSettings :
        InitOf(new_table(one_level_header, <<level_one_data>>, <<>>, "bottom"),
               new_flat_table(flat_data(n), setting))

NextFlat ==
    \/ \E call \in OperationCalls : add_total_operation(call[1], call[2], call[3])
    \/ add_table
    \/ \E column \in {"A", "B"} : add_value("A", column)

SpecFlat == InitFlat /\ [][NextFlat]_vars

C30_series_rows ==
    /\ last_call.op = "add_value" => ~last_call.raised
    /\ flat.pc = "done" =>
           \A i \in 1..Len(chart) :
               chart[i].first..chart[i].last = {log[k].row + 1 : k \in 1..Len(log)}

C26_rows_distinct ==
    pc = "done" =>
        /\ \A k \in 1..Len(tlog) :
               /\ tlog[k].row # table.header_row
               /\ \A j \in 1..Len(log) : log[j].row # tlog[k].row
        /\ \A j \in 1..Len(log) : log[j].row # table.header_row

\* C28 as the specification states it: add_column_formats called with a list of
\* levels and a single column name registers the format and the condition for that
\* column at every listed level, and adds no entry for any other level or column.
C28_every_listed_level ==
    (/\ last_call.op = "add_column_formats"
     /\ ncalls = 1
     /\ is_list(last_call.args[1])
     /\ is_str(last_call.args[2])
     /\ ~not_parallel(last_call.args[3], last_call.args[4])) =>
        \A level \in DOMAIN table.formats :
            IF level \in Range(last_call.args[1][2])
            THEN /\ table.formats[level] = (last_call.args[2][2] :> last_call.args[3])
                 /\ table.conditions[level] = (last_call.args[2][2] :> last_call.args[4])
            ELSE table.formats[level] = <<>> /\ table.conditions[level] = <<>>

(***************************************************************************)
(* Data validation on the sample: a format and dropdowns on the outermost  *)
(* levels, then rendering.                                                 *)
(***************************************************************************)
\* dropdown_values=['Yes', 'No']
YesNo == <<"Yes", "No">>

\* the calls of add_column_formats tried: <<levels, columns, format, condition>>
ValidationFormats ==
    {<<<<"str", ComputerName>>, <<"str", col>>, OneFormat, condition>> :
         col \in {ComputerName, CVECount}, condition \in {<<"none">>, <<"str", gt(100)>>}}

\* the conditions of the dropdowns tried: none, "_column_ == 'DESKTOP-1'",
\* ["_column_ == 'Total Row'"] (true of no row), ["_column_ == 'DESKTOP-1'",
\* "_column_ != 'Total Row'"] and ["_column_ > 50"]
ValidationConditions ==
    {<<"none">>,
     <<"str", eq(StrVal(1))>>,
     <<"list", <<eq(StrVal(99))>>>>,
     <<"list", <<eq(StrVal(1)), ne(StrVal(99))>>>>,
     <<"list", <<gt(50)>>>>}

InitValidation == InitWith(new_table(sample_header, sample_data, <<>>, "bottom"))

NextValidation ==
    \/ \E call \in ValidationFormats :
           add_column_formats(call[1], call[2], call[3], call[4])
    \/ \E column \in {ComputerName, CVECount}, level \in {ComputerName, ApplicationName},
          condition \in ValidationConditions :
           add_data_validation(column, level, YesNo, condition)
    \/ NextRender

SpecValidation == InitValidation /\ [][NextValidation]_vars

\* C29 as the specification states it: processing the data validation of a cell
\* changes neither the value nor the style already written for it; while the lines
\* are being written, every cell of a written line holds the line's value in the
\* style of the last write the format rules made (so also when the column has a
\* format and a validation whose list of conditions has no true condition).
C29_style_kept ==
    pc = "loop" =>
        \A j \in 1..Len(log) :
            LET columns == dataset(table, log[j].level_name).columns IN
            \A k \in 1..Len(columns) :
                LET at == <<log[j].row, sheet_col(table, columns[k])>> IN
                /\ at \in DOMAIN worksheet.cells
                /\ worksheet.cells[at].value =
                       Cell(table, log[j].level_name, log[j].line, columns[k])
                /\ worksheet.cells[at].format = log[j].writes[k][Len(log[j].writes[k])]

====
